---------------------------- MODULE Spec2Model ----------------------------
(***************************************************************************)
(* A model of protocols::ensemble_metrics::EnsembleMetric (the base class  *)
(* with the non-virtual apply() state machine) and of its derived class    *)
(* metrics::CentralTendencyEnsembleMetric, in the MPI-enabled,             *)
(* multi-threaded build.                                                   *)
(*                                                                         *)
(* A pose is represented by the value that the real-valued simple metric   *)
(* measures on it (simple_metric_->calculate(pose)).  core::Real values    *)
(* are exact rationals <<numerator, denominator>>; a square root is kept   *)
(* as its radicand (see SqrtOf), so stddev_ and stderr_ hold radicands.    *)
(* A failed runtime_assert / utility_exit throws: the operation ends with  *)
(* result "fail" and keeps every assignment made before the throw.         *)
(*                                                                         *)
(* Specifications: Spec (one metric, one caller, operations in one step),  *)
(* SpecGen (work items of apply() running at once), SpecMPI (collection by *)
(* MPI, message by message, from NPeers other processes), SpecFault (the   *)
(* same with a transport that misdelivers), SpecStar (synchronous sends,  *)
(* one receive for each process, with fairness), SpecConfigure (a metric   *)
(* of either class configured from a tag and by a setter, then used),      *)
(* SpecStatistics (the report on any sequence of measured values),         *)
(* SpecCallers (several threads calling apply() on one metric), SpecOwned  *)
(* (the metric applied, reported, reset, read by an EnsembleFilter and     *)
(* destroyed), SpecGenFair (SpecGen with threads that go on) and           *)
(* SpecFlight (processes that send more than one summary).                 *)
(***************************************************************************)
EXTENDS Integers, Sequences, FiniteSets, TLC

\* ------------------------------------------------------------------ bounds
\* Measured values are drawn from 0..MaxValue.
MaxValue == 1
\* Largest number of poses one ensemble holds in the model.
MaxPoses == 2
\* Largest ensemble_generating_protocol_repeats_ explored.
MaxRepeats == 2
\* Largest number of additional outputs one clone of the last mover yields.
MaxOutputs == 1

Values == 0..MaxValue

\* --------------------------------------------------------- exact rationals
RECURSIVE GCD(_, _)
GCD(a, b) == IF b = 0 THEN a ELSE GCD(b, a % b)

Abs(a) == IF a < 0 THEN -a ELSE a

\* The normal form of n/d (d # 0): positive denominator, lowest terms.
Norm(n, d) ==
    LET g == GCD(Abs(n), Abs(d))
        s == IF d < 0 THEN -1 ELSE 1
    IN  << (s * n) \div g, (s * d) \div g >>

R(n) == << n, 1 >>
RAdd(p, q) == Norm(p[1] * q[2] + q[1] * p[2], p[2] * q[2])
RSub(p, q) == Norm(p[1] * q[2] - q[1] * p[2], p[2] * q[2])
RMul(p, q) == Norm(p[1] * q[1], p[2] * q[2])
RDiv(p, q) == Norm(p[1] * q[2], p[2] * q[1])

\* std::sqrt(q) for a rational q >= 0, kept symbolically: the non-negative
\* real whose square is q.  Two such values are equal iff their radicands are.
SqrtOf(q) == [ sqrt_of |-> q ]
\* sqrt(a) / sqrt(b) = sqrt(a / b) for a >= 0, b > 0.
SqrtQuot(a, b) == [ sqrt_of |-> RDiv(a.sqrt_of, b.sqrt_of) ]

\* ------------------------------------------------ statistics (finalize_values)
\* std::accumulate( values_.begin(), values_.end(), 0.0 )
RECURSIVE Accumulate(_)
Accumulate(vals) ==
    IF vals = << >> THEN R(0)
    ELSE RAdd(R(Head(vals)), Accumulate(Tail(vals)))

\* Insertion of x into a descending sequence: what std::sort would do with
\* the comparison reversed.
RECURSIVE InsertSorted_descending(_, _)
InsertSorted_descending(x, srt) ==
    IF srt = << >> THEN << x >>
    ELSE IF x > Head(srt) THEN << x >> \o srt
    ELSE << Head(srt) >> \o InsertSorted_descending(x, Tail(srt))

\* Insertion of x into an ascending sequence (after its equals).
RECURSIVE InsertSorted(_, _)
InsertSorted(x, srt) ==
    IF srt = << >> THEN << x >>
    ELSE IF x < Head(srt) THEN << x >> \o srt
    ELSE << Head(srt) >> \o InsertSorted(x, Tail(srt))

\* std::sort( values_sorted.begin(), values_sorted.end() )
RECURSIVE Sort(_)
Sort(vals) ==
    IF vals = << >> THEN << >>
    ELSE InsertSorted(Head(vals), Sort(Tail(vals)))

\* The median taken as the upper of the two middle elements when the size is
\* even.
MedianPositions_upper_middle(size) == << size \div 2 + 1 >>

\* The positions of values_sorted (a utility::vector1: the first is 1) that
\* the median reads, for its size.
MedianPositions(size) ==
    IF size % 2 = 0
    THEN LET pos == size \div 2 IN << pos, pos + 1 >>
    ELSE << size \div 2 + 1 >>

\* Median of the sorted copy.
Median(values_sorted) ==
    LET at == MedianPositions(Len(values_sorted))
    IN  IF Len(at) = 2
        THEN RDiv(RAdd(R(values_sorted[at[1]]), R(values_sorted[at[2]])), R(2))
        ELSE R(values_sorted[at[1]])

\* The loop over values_ that sums the squared deviations from the mean.
RECURSIVE SquaredDeviations(_, _)
SquaredDeviations(vals, mean) ==
    IF vals = << >> THEN R(0)
    ELSE LET dev == RSub(R(Head(vals)), mean)
         IN  RAdd(RMul(dev, dev), SquaredDeviations(Tail(vals), mean))

\* counts[curval]: the std::map built by the same loop.
Counts(vals) ==
    [ v \in { vals[i] : i \in DOMAIN vals } |->
        Cardinality({ i \in DOMAIN vals : vals[i] = v }) ]

\* The loop over the map without its branch for a group of the same size as
\* the largest so far: the first of the largest groups is the mode.
RECURSIVE ModeLoop_first_of_largest(_, _, _)
ModeLoop_first_of_largest(keys, counts, acc) ==
    IF keys = << >> THEN acc
    ELSE LET k == Head(keys)
             next ==
                 IF counts[k] > acc.maxsize
                 THEN [ accumulator2 |-> R(k), maxsize |-> counts[k],
                        maxsize_counter |-> 1 ]
                 ELSE acc
         IN  ModeLoop_first_of_largest(Tail(keys), counts, next)

\* The loop over the map (ascending keys) that finds the mode: acc is
\* [accumulator2, maxsize, maxsize_counter].
RECURSIVE ModeLoop(_, _, _)
ModeLoop(keys, counts, acc) ==
    IF keys = << >> THEN acc
    ELSE LET k == Head(keys)
             next ==
                 IF counts[k] > acc.maxsize
                 THEN [ accumulator2 |-> R(k), maxsize |-> counts[k],
                        maxsize_counter |-> 1 ]
                 ELSE IF counts[k] = acc.maxsize
                 THEN [ accumulator2 |-> RAdd(acc.accumulator2, R(k)),
                        maxsize |-> acc.maxsize,
                        maxsize_counter |-> acc.maxsize_counter + 1 ]
                 ELSE acc
         IN  ModeLoop(Tail(keys), counts, next)

\* The distinct elements of an ascending sequence, ascending.
RECURSIVE Distinct(_)
Distinct(srt) ==
    IF Len(srt) < 2 THEN srt
    ELSE IF srt[1] = srt[2] THEN Distinct(Tail(srt))
    ELSE << srt[1] >> \o Distinct(Tail(srt))

Mode(vals) ==
    LET acc == ModeLoop(Distinct(Sort(vals)), Counts(vals),
                        [ accumulator2 |-> R(0), maxsize |-> 0,
                          maxsize_counter |-> 0 ])
    IN  RDiv(acc.accumulator2, R(acc.maxsize_counter))

\* The statistics taken from values_ as it stands, without the sorted copy.
ComputeStatistics_unsorted(vals, poses) ==
    LET mean        == RDiv(Accumulate(vals), R(poses))
        min         == R(vals[1])
        max         == R(vals[Len(vals)])
        accumulator == RDiv(SquaredDeviations(vals, mean), R(Len(vals)))
        stddev      == SqrtOf(accumulator)
    IN  [ mean   |-> mean,
          median |-> Median(vals),
          mode   |-> Mode(vals),
          stddev |-> stddev,
          stderr |-> SqrtQuot(stddev, SqrtOf(R(Len(vals)))),
          min    |-> min,
          max    |-> max,
          range  |-> RSub(max, min) ]

\* The statistics with the sample-corrected standard deviation (divisor
\* n - 1 for more than one value).
ComputeStatistics_sample_corrected(vals, poses) ==
    LET mean          == RDiv(Accumulate(vals), R(poses))
        values_sorted == Sort(vals)
        min           == R(values_sorted[1])
        max           == R(values_sorted[Len(values_sorted)])
        accumulator   == RDiv(SquaredDeviations(vals, mean),
                              R(IF Len(vals) > 1 THEN Len(vals) - 1 ELSE 1))
        stddev        == SqrtOf(accumulator)
    IN  [ mean   |-> mean,
          median |-> Median(values_sorted),
          mode   |-> Mode(vals),
          stddev |-> stddev,
          stderr |-> SqrtQuot(stddev, SqrtOf(R(Len(vals)))),
          min    |-> min,
          max    |-> max,
          range  |-> RSub(max, min) ]

\* The eight statistics that finalize_values() assigns, for a non-empty
\* values_ and the count poses (poses_in_ensemble()).
ComputeStatistics(vals, poses) ==
    LET mean          == RDiv(Accumulate(vals), R(poses))
        values_sorted == Sort(vals)
        min           == R(values_sorted[1])
        max           == R(values_sorted[Len(values_sorted)])
        accumulator   == RDiv(SquaredDeviations(vals, mean), R(Len(vals)))
        stddev        == SqrtOf(accumulator)
    IN  [ mean   |-> mean,
          median |-> Median(values_sorted),
          mode   |-> Mode(vals),
          stddev |-> stddev,
          stderr |-> SqrtQuot(stddev, SqrtOf(R(Len(vals)))),
          min    |-> min,
          max    |-> max,
          range  |-> RSub(max, min) ]

\* The values of the eight members after construction and after derived_reset().
ZeroStatistics ==
    [ mean |-> R(0), median |-> R(0), mode |-> R(0),
      stddev |-> SqrtOf(R(0)), stderr |-> SqrtOf(R(0)),
      min |-> R(0), max |-> R(0), range |-> R(0) ]


\* ------------------------------------------------------------------- state
VARIABLES
    \* members of EnsembleMetric
    finalized_,
    use_additional_output_from_last_mover_,
    output_mode_,
    output_filename_,
    label_prefix_,
    label_suffix_,
    last_mover_,
    ensemble_generating_protocol_,
    ensemble_generating_protocol_repeats_,
    poses_in_ensemble_,
    n_threads_,
    pose_mutex_,
    ensemble_generating_protocol_mutex_,
    ensemble_metric_mutex_,
    \* the class of the metric object, which decides its virtual functions
    metric_class,
    \* members of CentralTendencyEnsembleMetric
    simple_metric_,
    values_,
    mean_, median_, mode_, stddev_, stderr_, min_, max_, range_,
    derived_finalized_,
    \* the thread that calls the metric: "idle" between operations, "in_apply"
    \* while apply() runs its work vector, "crashed" once the process has died
    caller,
    \* the work vector of generate_ensemble_and_apply_to_poses()
    workvec,
    \* history (read by no operation): the last operation called and how it
    \* ended, the values measured since construction or the last reset(),
    \* whether an operation has failed since then, and whether some reset()
    \* has discarded a finalized, non-empty ensemble
    last_call,
    ensemble,
    failed_since_reset,
    was_reset,
    \* collection by MPI: the metrics of the other processes (pc: where the
    \* process stands in send_mpi_summary()), the messages each of them has
    \* sent that no receive has matched yet, oldest first, and the
    \* locals of this process's recv_mpi_summary() (with history: the
    \* processes its calls have returned and the count and values with which
    \* this metric began to receive)
    peers,
    channel,
    receiver,
    \* the threads that have called apply() on the metric on their own, each
    \* with its position in the call and its locals
    threads,
    \* the members of an EnsembleFilter that the script has made: the metric
    \* it reads and the name of the value it filters on
    ensemble_filter

configuration ==
    << use_additional_output_from_last_mover_, output_mode_, output_filename_,
       label_prefix_, label_suffix_, last_mover_, ensemble_generating_protocol_,
       ensemble_generating_protocol_repeats_, n_threads_, simple_metric_,
       metric_class >>

statistics == << mean_, median_, mode_, stddev_, stderr_, min_, max_, range_ >>

accumulated ==
    << finalized_, poses_in_ensemble_, values_, statistics, derived_finalized_ >>

mutexes == << pose_mutex_, ensemble_generating_protocol_mutex_, ensemble_metric_mutex_ >>

history == << last_call, ensemble, failed_since_reset, was_reset >>

mpi == << peers, channel, receiver >>

vars ==
    << configuration, accumulated, mutexes, caller, workvec, history, mpi, threads,
       ensemble_filter >>

nullptr == "nullptr"

OutputModes == { "TRACER", "TRACER_AND_FILE", "FILE" }

\* The names in metric_names_for_class, and some that are not in it.
metric_names_for_class ==
    { "mean", "median", "mode", "stddev", "stderr", "min", "max", "range" }
OtherNames == { "variance", "" }

\* The accumulated state of the metric as one record, and its assignment.
Metric ==
    [ finalized         |-> finalized_,
      poses             |-> poses_in_ensemble_,
      values            |-> values_,
      derived_finalized |-> derived_finalized_,
      stats             |-> [ mean |-> mean_, median |-> median_, mode |-> mode_,
                              stddev |-> stddev_, stderr |-> stderr_,
                              min |-> min_, max |-> max_, range |-> range_ ] ]

Store(m) ==
    /\ finalized_' = m.finalized
    /\ poses_in_ensemble_' = m.poses
    /\ values_' = m.values
    /\ derived_finalized_' = m.derived_finalized
    /\ mean_' = m.stats.mean
    /\ median_' = m.stats.median
    /\ mode_' = m.stats.mode
    /\ stddev_' = m.stats.stddev
    /\ stderr_' = m.stats.stderr
    /\ min_' = m.stats.min
    /\ max_' = m.stats.max
    /\ range_' = m.stats.range

\* A running operation: the metric, how the operation stands ("ok" while it
\* runs normally, "fail" after a throw, "crash" after the process died) and
\* the values it has measured and the reports it has completed (in all, to the
\* tracer, to the file).
Running(m) ==
    [ m |-> m, result |-> "ok", measured |-> << >>,
      reports |-> 0, tracer |-> 0, file |-> 0 ]


Throw(r) == [ r EXCEPT !.result = "fail" ]
Crash(r) == [ r EXCEPT !.result = "crash" ]

\* ------------------------------------------- CentralTendencyEnsembleMetric
\* add_pose_to_ensemble( pose ): throws without a simple metric, else
\* appends the measured value to values_.
add_pose_to_ensemble(r, pose) ==
    IF simple_metric_ = nullptr THEN Throw(r)
    ELSE [ r EXCEPT !.m.values = Append(@, pose), !.measured = Append(@, pose) ]

\* What a read outside an empty values_sorted can leave in the statistics.
IndeterminateStatistics ==
    { ZeroStatistics } \cup { ComputeStatistics(<< v >>, 1) : v \in Values }

\* finalize_values() without its early return on derived_finalized_: it
\* computes the statistics afresh at every call.
finalize_values_recomputing(r) ==
    LET r1 == [ r EXCEPT !.m.derived_finalized = TRUE ]
        release ==
            IF r1.m.poses = 0 THEN { Throw(r1) }
            ELSE IF r1.m.values = << >>
            THEN { Crash(r1) } \cup
                 { [ r1 EXCEPT !.m.stats = st ] : st \in IndeterminateStatistics }
            ELSE { [ r1 EXCEPT !.m.stats =
                                  ComputeStatistics(r1.m.values, r1.m.poses) ] }
    IN  IF r1.m.poses # Len(r1.m.values)
        THEN { Crash(r1), Throw(r1) } \cup release
        ELSE release

\* finalize_values(): the set of ways it can end.  The computed flag is set
\* before the checks.  debug_assert( poses_in_ensemble() == values_.size() )
\* stops a debug build (by abort or by throw); a release build goes on, and
\* with an empty values_ and a positive count it reads values_sorted out of
\* range, which is undefined: the process dies or goes on with indeterminate
\* statistics.
finalize_values(r) ==
    IF r.m.derived_finalized THEN { r }
    ELSE
      LET r1 == [ r EXCEPT !.m.derived_finalized = TRUE ]
          release ==
              IF r1.m.poses = 0 THEN { Throw(r1) }
              ELSE IF r1.m.values = << >>
              THEN { Crash(r1) } \cup
                   { [ r1 EXCEPT !.m.stats = st ] : st \in IndeterminateStatistics }
              ELSE { [ r1 EXCEPT !.m.stats =
                                    ComputeStatistics(r1.m.values, r1.m.poses) ] }
      IN  IF r1.m.poses # Len(r1.m.values)
          THEN { Crash(r1), Throw(r1) } \cup release
          ELSE release

\* produce_final_report_string(): finalize_values(), then the text, which
\* opens with simple_metric_->name(); without a simple metric that call is
\* undefined: the process dies, or the text is written all the same.
produce_final_report_string(r) ==
    UNION { IF s.result = "ok" /\ simple_metric_ = nullptr
            THEN { Crash(s), s } ELSE { s } : s \in finalize_values(r) }

\* derived_get_metric_by_name( metric_name ) with a copy-and-paste slip: the
\* branch for "stderr" returns stddev_.
derived_get_metric_by_name_stderr_slip(metric_name) ==
    IF metric_name = "mean" THEN [ ok |-> TRUE, value |-> mean_ ]
    ELSE IF metric_name = "median" THEN [ ok |-> TRUE, value |-> median_ ]
    ELSE IF metric_name = "mode" THEN [ ok |-> TRUE, value |-> mode_ ]
    ELSE IF metric_name = "stddev" THEN [ ok |-> TRUE, value |-> stddev_ ]
    ELSE IF metric_name = "stderr" THEN [ ok |-> TRUE, value |-> stddev_ ]
    ELSE IF metric_name = "min" THEN [ ok |-> TRUE, value |-> min_ ]
    ELSE IF metric_name = "max" THEN [ ok |-> TRUE, value |-> max_ ]
    ELSE IF metric_name = "range" THEN [ ok |-> TRUE, value |-> range_ ]
    ELSE [ ok |-> FALSE ]

\* derived_get_metric_by_name( metric_name )
derived_get_metric_by_name(metric_name) ==
    IF metric_name = "mean" THEN [ ok |-> TRUE, value |-> mean_ ]
    ELSE IF metric_name = "median" THEN [ ok |-> TRUE, value |-> median_ ]
    ELSE IF metric_name = "mode" THEN [ ok |-> TRUE, value |-> mode_ ]
    ELSE IF metric_name = "stddev" THEN [ ok |-> TRUE, value |-> stddev_ ]
    ELSE IF metric_name = "stderr" THEN [ ok |-> TRUE, value |-> stderr_ ]
    ELSE IF metric_name = "min" THEN [ ok |-> TRUE, value |-> min_ ]
    ELSE IF metric_name = "max" THEN [ ok |-> TRUE, value |-> max_ ]
    ELSE IF metric_name = "range" THEN [ ok |-> TRUE, value |-> range_ ]
    ELSE [ ok |-> FALSE ]

\* derived_reset() that forgets derived_finalized_.
derived_reset_keeps_flag(m) ==
    [ m EXCEPT !.stats = ZeroStatistics, !.values = << >> ]

\* derived_reset()
derived_reset(m) ==
    [ m EXCEPT !.stats = ZeroStatistics, !.values = << >>,
               !.derived_finalized = FALSE ]

\* The accessors mean(), median(), ..., range(): each fails unless finalized().
Accessor(member) ==
    IF finalized_ THEN [ ok |-> TRUE, value |-> member ] ELSE [ ok |-> FALSE ]
mean == Accessor(mean_)
median == Accessor(median_)
mode == Accessor(mode_)
stddev == Accessor(stddev_)
stderror == Accessor(stderr_)
min == Accessor(min_)
max == Accessor(max_)
range == Accessor(range_)

\* ---------------------------------------------------------- EnsembleMetric
\* produce_final_report_to_tracer( tracer )
produce_final_report_to_tracer(r) ==
    IF r.result # "ok" THEN { r }
    ELSE IF output_mode_ \notin { "TRACER", "TRACER_AND_FILE" } THEN { Throw(r) }
    ELSE { IF s.result = "ok" THEN [ s EXCEPT !.tracer = @ + 1 ] ELSE s :
              s \in produce_final_report_string(r) }

\* produce_final_report_to_file( output_file )
produce_final_report_to_file(r, output_file) ==
    IF r.result # "ok" THEN { r }
    ELSE IF output_mode_ \notin { "FILE", "TRACER_AND_FILE" } THEN { Throw(r) }
    ELSE IF output_file = "" THEN { Throw(r) }
    ELSE { IF s.result = "ok" THEN [ s EXCEPT !.file = @ + 1 ] ELSE s :
              s \in produce_final_report_string(r) }

\* produce_final_report() that sets the flag before it writes to the sinks.
produce_final_report_flag_first(r) ==
    LET r0 == [ r EXCEPT !.m.finalized = TRUE ]
        written ==
            CASE output_mode_ = "TRACER" -> produce_final_report_to_tracer(r0)
              [] output_mode_ = "TRACER_AND_FILE" ->
                    UNION { produce_final_report_to_file(s, output_filename_) :
                               s \in produce_final_report_to_tracer(r0) }
              [] output_mode_ = "FILE" ->
                    produce_final_report_to_file(r0, output_filename_)
              [] OTHER -> { Throw(r0) }
    IN  { IF s.result = "ok" THEN [ s EXCEPT !.reports = @ + 1 ] ELSE s :
             s \in written }

\* produce_final_report(): the sinks of the output mode in order, then the flag.
produce_final_report(r) ==
    LET written ==
            CASE output_mode_ = "TRACER" -> produce_final_report_to_tracer(r)
              [] output_mode_ = "TRACER_AND_FILE" ->
                    UNION { produce_final_report_to_file(s, output_filename_) :
                               s \in produce_final_report_to_tracer(r) }
              [] output_mode_ = "FILE" ->
                    produce_final_report_to_file(r, output_filename_)
              [] OTHER -> { Throw(r) }
    IN  { IF s.result = "ok"
          THEN [ s EXCEPT !.m.finalized = TRUE, !.reports = @ + 1 ]
          ELSE s : s \in written }

\* get_metric_by_name( metric_name ) (get_real_metric_value_by_name in the .cc)
get_metric_by_name(metric_name) ==
    IF ~finalized_ THEN [ ok |-> FALSE ]
    ELSE IF metric_name \notin metric_names_for_class THEN [ ok |-> FALSE ]
    ELSE derived_get_metric_by_name(metric_name)

\* reports_at_end()
reports_at_end ==
    ensemble_generating_protocol_ = nullptr /\ ~use_additional_output_from_last_mover_


\* ------------------------------------------------------------ configuration
\* The configurations that parse_my_tag() / parse_common_ensemble_metric_options()
\* and set_previous_mover() can leave, for the given thread-count requests:
\* the repeat count is read only with an ensemble-generating protocol, and an
\* output filename only with an output mode other than tracer.
Configurations(thread_requests) ==
    { c \in [ simple_metric  : { nullptr, "metric" },
              protocol       : { nullptr, "protocol" },
              last_mover     : { nullptr, "mover" },
              use_additional : BOOLEAN,
              repeats        : 1..MaxRepeats,
              n_threads      : thread_requests,
              output_mode    : OutputModes,
              output_filename: { "", "report.txt" },
              labels         : { << "", "" >>, << "pre", "suf" >> } ] :
        /\ c.protocol = nullptr => c.repeats = 1
        /\ c.output_mode = "TRACER" => c.output_filename = ""
        \* explored: labels with a report file only, and a metric without a
        \* simple metric with tracer output only
        /\ c.labels = << "", "" >> <=> c.output_filename = ""
        /\ c.simple_metric = nullptr => c.output_mode = "TRACER" }

\* The options of a tag: each is << >> when the tag does not have it
\* (hasOption) and << v >> when it has it with value v (getOption).
NoTag ==
    [ label_prefix |-> << >>, label_suffix |-> << >>,
      ensemble_generating_protocol |-> << >>,
      ensemble_generating_protocol_repeats |-> << >>,
      n_threads |-> << >>, use_additional_output_from_last_mover |-> << >>,
      output_mode |-> << >>, output_filename |-> << >>,
      real_valued_metric |-> << >> ]

NoCall ==
    [ op |-> "none", result |-> "ok", pose |-> -1, outs |-> << >>,
      reports |-> 0, tracer |-> 0, file |-> 0, before |-> 0, tag |-> NoTag ]

\* How operation op ended, as last_call records it (before: the count with
\* which an apply() that runs a work vector began, 0 for any other call;
\* tag: the tag that was parsed, NoTag for any other call).
Call(op, pose, outs, r) ==
    [ op |-> op, result |-> r.result, pose |-> pose, outs |-> outs,
      reports |-> r.reports, tracer |-> r.tracer, file |-> r.file, before |-> 0,
      tag |-> NoTag ]

\* The configuration of a CentralTendencyEnsembleMetric is one of
\* configurations.
Configured(configurations) ==
    \E c \in configurations :
       /\ metric_class = "CentralTendencyEnsembleMetric"
       /\ simple_metric_ = c.simple_metric
       /\ ensemble_generating_protocol_ = c.protocol
       /\ last_mover_ = c.last_mover
       /\ use_additional_output_from_last_mover_ = c.use_additional
       /\ ensemble_generating_protocol_repeats_ = c.repeats
       /\ n_threads_ = c.n_threads
       /\ output_mode_ = c.output_mode
       /\ output_filename_ = c.output_filename
       /\ label_prefix_ = c.labels[1]
       /\ label_suffix_ = c.labels[2]

\* EnsembleFilter(): no metric and no name.
NoFilter == [ ensemble_metric_ |-> nullptr, named_value_ |-> "" ]

\* The members and the history as the constructors leave them, but for the
\* count and the values.
Constructed ==
    /\ finalized_ = FALSE
    /\ mean_ = ZeroStatistics.mean
    /\ median_ = ZeroStatistics.median
    /\ mode_ = ZeroStatistics.mode
    /\ stddev_ = ZeroStatistics.stddev
    /\ stderr_ = ZeroStatistics.stderr
    /\ min_ = ZeroStatistics.min
    /\ max_ = ZeroStatistics.max
    /\ range_ = ZeroStatistics.range
    /\ derived_finalized_ = FALSE
    /\ pose_mutex_ = 0
    /\ ensemble_generating_protocol_mutex_ = 0
    /\ ensemble_metric_mutex_ = 0
    /\ caller = "idle"
    /\ workvec = << >>
    /\ last_call = NoCall
    /\ failed_since_reset = FALSE
    /\ was_reset = FALSE
    /\ threads = << >>
    /\ ensemble_filter = NoFilter

\* The locals of recv_mpi_summary() outside a call, for a metric that began
\* to receive with the given count and values and whose calls have returned
\* the processes from.
Receiver(poses, vals, from) ==
    [ pc |-> "idle", n_additional_poses |-> -1, originating_proc |-> -1,
      oldsize |-> 0, from |-> from, start |-> [ poses |-> poses, values |-> vals ] ]

\* The state after construction and configuration, with no other process.
InitWith(configurations) ==
    /\ Configured(configurations)
    /\ Constructed
    /\ poses_in_ensemble_ = 0
    /\ values_ = << >>
    /\ ensemble = << >>
    /\ peers = << >>
    /\ channel = << >>
    /\ receiver = Receiver(0, << >>, << >>)

\* The end of an operation of the calling thread that ran to its end in one
\* step: the metric it leaves and the history.
Return(op, pose, outs, r) ==
    /\ Store(r.m)
    /\ caller' = IF r.result = "crash" THEN "crashed" ELSE "idle"
    /\ last_call' = Call(op, pose, outs, r)
    /\ ensemble' = ensemble \o r.measured
    /\ failed_since_reset' = (failed_since_reset \/ r.result # "ok")

\* The sequences of at most n values.
SeqsUpTo(n) == UNION { [ 1..k -> Values ] : k \in 0..n }

\* ------------------------------------------------------------------ apply()
\* The loop over the additional outputs without its ++poses_in_ensemble_.
RECURSIVE measure_additional_output_uncounted(_, _)
measure_additional_output_uncounted(r, outs) ==
    IF outs = << >> \/ r.result # "ok" THEN r
    ELSE measure_additional_output_uncounted(
             add_pose_to_ensemble(r, Head(outs)), Tail(outs))

\* The additional outputs of a clone of the last mover, measured in turn.
RECURSIVE measure_additional_output(_, _)
measure_additional_output(r, outs) ==
    IF outs = << >> \/ r.result # "ok" THEN r
    ELSE measure_additional_output(
             add_pose_to_ensemble([ r EXCEPT !.m.poses = @ + 1 ], Head(outs)),
             Tail(outs))

\* The branch of apply() without an ensemble-generating protocol, draining
\* and reporting whenever there is a last mover (the flag is not tested).
apply_to_pose_drains_without_flag(r, pose, outs) ==
    LET first == add_pose_to_ensemble([ r EXCEPT !.m.poses = @ + 1 ], pose)
    IN  IF last_mover_ # nullptr
        THEN produce_final_report(measure_additional_output(first, outs))
        ELSE { first }

\* The branch of apply() without an ensemble-generating protocol; outs are
\* the poses that get_additional_output() returns before it returns nullptr.
apply_to_pose(r, pose, outs) ==
    LET first == add_pose_to_ensemble([ r EXCEPT !.m.poses = @ + 1 ], pose)
    IN  IF use_additional_output_from_last_mover_ /\ last_mover_ # nullptr
        THEN produce_final_report(measure_additional_output(first, outs))
        ELSE { first }

\* The assertion that opens apply(), as a plausible slip would have it: made
\* only on the branch without an ensemble-generating protocol.
apply_allowed_without_protocol ==
    finalized_ = FALSE \/ ensemble_generating_protocol_ # nullptr

\* The assertion that opens apply().
apply_allowed == finalized_ = FALSE

\* supports_mpi(): true as CentralTendencyEnsembleMetric overrides it, false
\* as a class inherits it from EnsembleMetric.
supports_mpi == metric_class = "CentralTendencyEnsembleMetric"

\* The second assertion of apply() (MPI build): a metric that reports at the
\* end of the script must support collection of results by MPI.
apply_mpi_allowed ==
    (ensemble_generating_protocol_ = nullptr
        /\ ~use_additional_output_from_last_mover_) => supports_mpi


\* ------------------------------------------- the work vector of apply()
\* Threads that the thread manager can grant to one work vector.
AvailableThreads == 2

\* do_work_vector_in_threads( workvec, n_threads_, ... ): the number of work
\* items that may run at once (a request of 0 asks for all available).
ThreadLimit ==
    IF n_threads_ = 0 \/ n_threads_ > AvailableThreads
    THEN AvailableThreads ELSE n_threads_

NoMoverCopy == [ cloned |-> FALSE, outs |-> << >> ]

\* One entry of workvec: generate_one_ensemble_entry bound to its arguments
\* (the attempt index is the entry's position), with the position of the
\* thread that runs it, its local my_pose and the count it has loaded for
\* ++poses_in_ensemble_.  History, read by no step: the values that an entry
\* without a copy of the last mover has added.
WorkItem(pose, last_mover_copy) ==
    [ pc |-> "queued", master_pose |-> pose, my_pose |-> -1,
      last_mover_copy |-> last_mover_copy, loaded |-> -1, added |-> << >> ]

RunningItems == { j \in DOMAIN workvec : workvec[j].pc \notin { "queued", "done" } }

\* do_work_vector_in_threads() returning once every entry has been handed to
\* a thread, without waiting for them.
work_vector_started == \A j \in DOMAIN workvec : workvec[j].pc # "queued"

\* do_work_vector_in_threads() returns once every entry has run.
work_vector_done == \A j \in DOMAIN workvec : workvec[j].pc = "done"

RECURSIVE SumLen(_)
SumLen(seqs) == IF seqs = << >> THEN 0 ELSE Len(Head(seqs)) + SumLen(Tail(seqs))

\* generate_ensemble_and_apply_to_poses( pose ) that first measures the pose
\* it was given, as the branch without a protocol does.
generate_and_measure_seed(pose) ==
    LET doing_multiple_outputs ==
            last_mover_ # nullptr /\ use_additional_output_from_last_mover_
        first == add_pose_to_ensemble(
                     [ Running(Metric) EXCEPT !.m.poses = @ + 1 ], pose)
    IN  /\ \E copies \in [ 1..ensemble_generating_protocol_repeats_ ->
                             SeqsUpTo(MaxOutputs) ] :
             /\ ~doing_multiple_outputs =>
                   \A i \in DOMAIN copies : copies[i] = << >>
             /\ poses_in_ensemble_ + 1 + Len(copies) + SumLen(copies) <= MaxPoses
             /\ workvec' =
                   [ i \in 1..ensemble_generating_protocol_repeats_ |->
                       WorkItem(pose,
                                IF doing_multiple_outputs
                                THEN [ cloned |-> TRUE, outs |-> copies[i] ]
                                ELSE NoMoverCopy) ]
        /\ Store(first.m)
        /\ ensemble' = ensemble \o first.measured

\* generate_ensemble_and_apply_to_poses( pose ): one entry of the work vector
\* for each repeat, each bound to the pose and, when additional output is
\* used, to its own copy of the last mover (copies[i]: the further poses that
\* copy yields).  Nothing is measured here.
generate_ensemble_and_apply_to_poses(pose) ==
    LET doing_multiple_outputs ==
            last_mover_ # nullptr /\ use_additional_output_from_last_mover_
    IN  /\ \E copies \in [ 1..ensemble_generating_protocol_repeats_ ->
                             SeqsUpTo(MaxOutputs) ] :
             /\ ~doing_multiple_outputs =>
                   \A i \in DOMAIN copies : copies[i] = << >>
             /\ poses_in_ensemble_ + Len(copies) + SumLen(copies) <= MaxPoses
             /\ workvec' =
                   [ i \in 1..ensemble_generating_protocol_repeats_ |->
                       WorkItem(pose,
                                IF doing_multiple_outputs
                                THEN [ cloned |-> TRUE, outs |-> copies[i] ]
                                ELSE NoMoverCopy) ]
        /\ UNCHANGED << accumulated, ensemble >>

\* apply( pose ): fails on a finalized metric; without an ensemble-generating
\* protocol measures the pose (and drains the last mover's additional output,
\* then reports); with one, builds the work vector of
\* generate_ensemble_and_apply_to_poses() and hands it to the thread manager.
apply(pose) ==
    /\ caller = "idle"
    /\ IF ~apply_allowed \/ ~apply_mpi_allowed
       THEN /\ Return("apply", pose, << >>, Throw(Running(Metric)))
            /\ UNCHANGED << configuration, mpi, threads, ensemble_filter, mutexes, workvec, was_reset >>
       ELSE IF ensemble_generating_protocol_ = nullptr
       THEN /\ \E outs \in SeqsUpTo(MaxOutputs) :
                 /\ ~(use_additional_output_from_last_mover_ /\ last_mover_ # nullptr)
                       => outs = << >>
                 /\ poses_in_ensemble_ + 1 + Len(outs) <= MaxPoses
                 /\ \E r \in apply_to_pose(Running(Metric), pose, outs) :
                       Return("apply", pose, outs, r)
            /\ UNCHANGED << configuration, mpi, threads, ensemble_filter, mutexes, workvec, was_reset >>
       ELSE /\ generate_ensemble_and_apply_to_poses(pose)
            /\ caller' = "in_apply"
            /\ last_call' = [ Call("apply", pose, << >>, Running(Metric))
                                EXCEPT !.result = "running",
                                       !.before = poses_in_ensemble_ ]
            /\ UNCHANGED << configuration, mpi, threads, ensemble_filter, mutexes, failed_since_reset, was_reset >>

\* The thread manager gives work item i to a thread.
start_work_item(i) ==
    /\ caller = "in_apply"
    /\ i \in DOMAIN workvec
    /\ workvec[i].pc = "queued"
    /\ Cardinality(RunningItems) < ThreadLimit
    /\ workvec' = [ workvec EXCEPT ![i].pc = "lock_pose" ]
    /\ UNCHANGED << configuration, mpi, threads, ensemble_filter, accumulated, mutexes, caller, history >>

\* generate_one_ensemble_entry: std::lock_guard lock( pose_mutex_ )
lock_pose(i) ==
    /\ caller = "in_apply"
    /\ i \in DOMAIN workvec
    /\ workvec[i].pc = "lock_pose"
    /\ pose_mutex_ = 0
    /\ pose_mutex_' = i
    /\ workvec' = [ workvec EXCEPT ![i].pc = "copy_pose" ]
    /\ UNCHANGED << configuration, mpi, threads, ensemble_filter, accumulated, ensemble_generating_protocol_mutex_,
                    ensemble_metric_mutex_, caller, history >>

\* my_pose->detached_copy( master_pose ), end of the lock's scope
copy_pose(i) ==
    /\ caller = "in_apply"
    /\ i \in DOMAIN workvec
    /\ workvec[i].pc = "copy_pose"
    /\ pose_mutex_' = 0
    /\ workvec' = [ workvec EXCEPT ![i].pc = "lock_protocol",
                                   ![i].my_pose = workvec[i].master_pose ]
    /\ UNCHANGED << configuration, mpi, threads, ensemble_filter, accumulated, ensemble_generating_protocol_mutex_,
                    ensemble_metric_mutex_, caller, history >>

\* The protocol cloned without waiting for
\* ensemble_generating_protocol_mutex_.
lock_protocol_without_waiting(i) ==
    /\ caller = "in_apply"
    /\ i \in DOMAIN workvec
    /\ workvec[i].pc = "lock_protocol"
    /\ ensemble_generating_protocol_mutex_' = i
    /\ workvec' = [ workvec EXCEPT ![i].pc = "clone_protocol" ]
    /\ UNCHANGED << configuration, mpi, threads, ensemble_filter, accumulated, pose_mutex_, ensemble_metric_mutex_,
                    caller, history >>

\* std::lock_guard lock( ensemble_generating_protocol_mutex_ )
lock_protocol(i) ==
    /\ caller = "in_apply"
    /\ i \in DOMAIN workvec
    /\ workvec[i].pc = "lock_protocol"
    /\ ensemble_generating_protocol_mutex_ = 0
    /\ ensemble_generating_protocol_mutex_' = i
    /\ workvec' = [ workvec EXCEPT ![i].pc = "clone_protocol" ]
    /\ UNCHANGED << configuration, mpi, threads, ensemble_filter, accumulated, pose_mutex_, ensemble_metric_mutex_,
                    caller, history >>

\* my_protocol = master_protocol.clone(), end of the lock's scope
clone_protocol(i) ==
    /\ caller = "in_apply"
    /\ i \in DOMAIN workvec
    /\ workvec[i].pc = "clone_protocol"
    /\ ensemble_generating_protocol_mutex_' = 0
    /\ workvec' = [ workvec EXCEPT ![i].pc = "apply_protocol" ]
    /\ UNCHANGED << configuration, mpi, threads, ensemble_filter, accumulated, pose_mutex_, ensemble_metric_mutex_,
                    caller, history >>

\* generate_one_ensemble_entry going on to the additional output after a
\* failed application whether or not it has a copy of the last mover.
apply_protocol_going_on(i) ==
    /\ caller = "in_apply"
    /\ i \in DOMAIN workvec
    /\ workvec[i].pc = "apply_protocol"
    /\ \E success \in BOOLEAN, v \in Values :
          workvec' =
              IF success
              THEN [ workvec EXCEPT ![i].pc = "lock_metric", ![i].my_pose = v ]
              ELSE [ workvec EXCEPT ![i].pc = "lock_output" ]
    /\ UNCHANGED << configuration, mpi, threads, ensemble_filter, accumulated, mutexes, caller, history >>

\* my_protocol->apply( *my_pose ) and the test of its status: on success the
\* pose now measures v; on failure the entry returns, or with a copy of the
\* last mover goes on to the next additional output.
apply_protocol(i) ==
    /\ caller = "in_apply"
    /\ i \in DOMAIN workvec
    /\ workvec[i].pc = "apply_protocol"
    /\ \E success \in BOOLEAN, v \in Values :
          workvec' =
              IF success
              THEN [ workvec EXCEPT ![i].pc = "lock_metric", ![i].my_pose = v ]
              ELSE IF ~workvec[i].last_mover_copy.cloned
              THEN [ workvec EXCEPT ![i].pc = "done" ]
              ELSE [ workvec EXCEPT ![i].pc = "lock_output" ]
    /\ UNCHANGED << configuration, mpi, threads, ensemble_filter, accumulated, mutexes, caller, history >>

\* The accumulation section entered without waiting for ensemble_metric_mutex_.
lock_metric_without_waiting(i) ==
    /\ caller = "in_apply"
    /\ i \in DOMAIN workvec
    /\ workvec[i].pc = "lock_metric"
    /\ ensemble_metric_mutex_' = i
    /\ workvec' = [ workvec EXCEPT ![i].pc = "load_count" ]
    /\ UNCHANGED << configuration, mpi, threads, ensemble_filter, accumulated, pose_mutex_,
                    ensemble_generating_protocol_mutex_, caller, history >>

\* std::lock_guard lock( ensemble_metric_mutex_ )
lock_metric(i) ==
    /\ caller = "in_apply"
    /\ i \in DOMAIN workvec
    /\ workvec[i].pc = "lock_metric"
    /\ ensemble_metric_mutex_ = 0
    /\ ensemble_metric_mutex_' = i
    /\ workvec' = [ workvec EXCEPT ![i].pc = "load_count" ]
    /\ UNCHANGED << configuration, mpi, threads, ensemble_filter, accumulated, pose_mutex_,
                    ensemble_generating_protocol_mutex_, caller, history >>

\* ++poses_in_ensemble_ on a plain core::Size: the load
load_count(i) ==
    /\ caller = "in_apply"
    /\ i \in DOMAIN workvec
    /\ workvec[i].pc = "load_count"
    /\ poses_in_ensemble_ < MaxPoses
    /\ workvec' = [ workvec EXCEPT ![i].pc = "count_pose",
                                   ![i].loaded = poses_in_ensemble_ ]
    /\ UNCHANGED << configuration, mpi, threads, ensemble_filter, accumulated, mutexes, caller, history >>

\* ++poses_in_ensemble_: the store of the loaded count plus one
count_pose(i) ==
    /\ caller = "in_apply"
    /\ i \in DOMAIN workvec
    /\ workvec[i].pc = "count_pose"
    /\ poses_in_ensemble_' = workvec[i].loaded + 1
    /\ workvec' = [ workvec EXCEPT ![i].pc = "add_pose", ![i].loaded = -1 ]
    /\ UNCHANGED << configuration, mpi, threads, ensemble_filter, finalized_, values_, statistics, derived_finalized_,
                    mutexes, caller, history >>

\* add_pose_to_ensemble( *my_pose ), end of the lock's scope.  A throw leaves
\* the work item and ends apply().
add_pose(i) ==
    /\ caller = "in_apply"
    /\ i \in DOMAIN workvec
    /\ workvec[i].pc = "add_pose"
    /\ LET r == add_pose_to_ensemble(Running(Metric), workvec[i].my_pose)
       IN  /\ Store(r.m)
           /\ ensemble' = ensemble \o r.measured
           /\ IF r.result = "ok"
              THEN /\ ensemble_metric_mutex_' = 0
                   /\ workvec' = [ workvec EXCEPT
                                     ![i].pc = IF workvec[i].last_mover_copy.cloned
                                               THEN "lock_output" ELSE "done",
                                     ![i].added =
                                         IF workvec[i].last_mover_copy.cloned
                                         THEN @ ELSE @ \o r.measured ]
                   /\ UNCHANGED << pose_mutex_, ensemble_generating_protocol_mutex_,
                                   caller, last_call, failed_since_reset >>
              ELSE /\ pose_mutex_' = 0
                   /\ ensemble_generating_protocol_mutex_' = 0
                   /\ ensemble_metric_mutex_' = 0
                   /\ workvec' = << >>
                   /\ caller' = "idle"
                   /\ last_call' = [ last_call EXCEPT !.result = "fail" ]
                   /\ failed_since_reset' = TRUE
    /\ UNCHANGED << configuration, mpi, threads, ensemble_filter, was_reset >>

\* my_pose->clear(); std::lock_guard lock( pose_mutex_ )
lock_output(i) ==
    /\ caller = "in_apply"
    /\ i \in DOMAIN workvec
    /\ workvec[i].pc = "lock_output"
    /\ pose_mutex_ = 0
    /\ pose_mutex_' = i
    /\ workvec' = [ workvec EXCEPT ![i].pc = "copy_output" ]
    /\ UNCHANGED << configuration, mpi, threads, ensemble_filter, accumulated, ensemble_generating_protocol_mutex_,
                    ensemble_metric_mutex_, caller, history >>

\* my_pose->detached_copy( *last_mover_copy->get_additional_output() ), end of
\* the lock's scope, and back to the head of the loop (my_pose is never
\* nullptr).  Once the copy has no further output get_additional_output()
\* returns nullptr and the dereference is undefined: the process dies, or the
\* copy leaves an indeterminate pose and the loop goes on.
copy_output(i) ==
    /\ caller = "in_apply"
    /\ i \in DOMAIN workvec
    /\ workvec[i].pc = "copy_output"
    /\ LET outs == workvec[i].last_mover_copy.outs
       IN  IF outs # << >>
           THEN /\ workvec' = [ workvec EXCEPT
                                  ![i].pc = "apply_protocol",
                                  ![i].my_pose = Head(outs),
                                  ![i].last_mover_copy.outs = Tail(outs) ]
                /\ pose_mutex_' = 0
                /\ UNCHANGED << caller, last_call, failed_since_reset >>
           ELSE \/ /\ caller' = "crashed"
                   /\ last_call' = [ last_call EXCEPT !.result = "crash" ]
                   /\ failed_since_reset' = TRUE
                   /\ UNCHANGED << workvec, pose_mutex_ >>
                \/ /\ \E v \in Values :
                        workvec' = [ workvec EXCEPT ![i].pc = "apply_protocol",
                                                    ![i].my_pose = v ]
                   /\ pose_mutex_' = 0
                   /\ UNCHANGED << caller, last_call, failed_since_reset >>
    /\ UNCHANGED << configuration, mpi, threads, ensemble_filter, accumulated, ensemble_generating_protocol_mutex_,
                    ensemble_metric_mutex_, ensemble, was_reset >>

\* The rest of apply() after generate_ensemble_and_apply_to_poses():
\* produce_final_report().
apply_return ==
    /\ caller = "in_apply"
    /\ work_vector_done
    /\ \E r \in produce_final_report(Running(Metric)) :
          /\ Store(r.m)
          /\ caller' = IF r.result = "crash" THEN "crashed" ELSE "idle"
          /\ last_call' = [ Call("apply", last_call.pose, << >>, r)
                              EXCEPT !.before = last_call.before ]
          /\ ensemble' = ensemble \o r.measured
          /\ failed_since_reset' = (failed_since_reset \/ r.result # "ok")
    /\ workvec' = << >>
    /\ UNCHANGED << configuration, mpi, threads, ensemble_filter, mutexes, was_reset >>

\* ------------------------------------------------ the other public operations
\* produce_final_report(), called from outside.
report ==
    /\ caller = "idle"
    /\ \E r \in produce_final_report(Running(Metric)) :
          Return("produce_final_report", -1, << >>, r)
    /\ UNCHANGED << configuration, mpi, threads, ensemble_filter, mutexes, workvec, was_reset >>

\* reset() that leaves poses_in_ensemble_ alone.
reset_metric_keeps_count(m) == derived_reset([ m EXCEPT !.finalized = FALSE ])

\* reset()
reset_metric(m) == derived_reset([ m EXCEPT !.poses = 0, !.finalized = FALSE ])

reset ==
    /\ caller = "idle"
    /\ Store(reset_metric(Metric))
    /\ last_call' = Call("reset", -1, << >>, Running(Metric))
    /\ ensemble' = << >>
    /\ failed_since_reset' = FALSE
    /\ was_reset' = (was_reset \/ (finalized_ /\ values_ # << >>))
    /\ UNCHANGED << configuration, mpi, threads, ensemble_filter, mutexes, caller, workvec >>

\* recv_mpi_summary() that reopens the metric for the values it received.
recv_mpi_summary_from_reopening(m, payload) ==
    IF Len(payload) = 0 THEN m
    ELSE [ m EXCEPT !.values = @ \o payload, !.poses = @ + Len(payload),
                    !.finalized = FALSE ]

\* recv_mpi_summary(): a count from any process and, if it is positive, that
\* many values from the same process, appended to values_; then
\* increment_poses_in_ensemble().
recv_mpi_summary_from(m, payload) ==
    IF Len(payload) = 0 THEN m
    ELSE [ m EXCEPT !.values = @ \o payload, !.poses = @ + Len(payload) ]

\* A class that inherits recv_mpi_summary() from EnsembleMetric exits with
\* an error message.
recv_mpi_summary ==
    /\ caller = "idle"
    /\ IF supports_mpi
       THEN \E payload \in SeqsUpTo(MaxPoses - poses_in_ensemble_) :
               Return("recv_mpi_summary", -1, << >>,
                      [ Running(recv_mpi_summary_from(Metric, payload))
                          EXCEPT !.measured = payload ])
       ELSE Return("recv_mpi_summary", -1, << >>, Throw(Running(Metric)))
    /\ UNCHANGED << configuration, mpi, threads, ensemble_filter, mutexes, workvec, was_reset >>

\* send_mpi_summary( receiving_node_index ): const; asserts that the count
\* is the size of values_.  A class that inherits it from EnsembleMetric
\* exits with an error message.
send_mpi_summary ==
    /\ caller = "idle"
    /\ Return("send_mpi_summary", -1, << >>,
              IF supports_mpi /\ poses_in_ensemble_ = Len(values_)
              THEN Running(Metric) ELSE Throw(Running(Metric)))
    /\ UNCHANGED << configuration, mpi, threads, ensemble_filter, mutexes, workvec, was_reset >>

\* ----------------------------------- the filter and the end of the metric
\* EnsembleFilter::parse_my_tag(): the tag must name an ensemble metric and
\* a value (else utility_exit_with_message ends the process); the threshold
\* and the acceptance mode decide only what the filter returns.
EnsembleFilter_parse_my_tag ==
    /\ caller = "idle"
    /\ ensemble_filter = NoFilter
    /\ \E tag \in [ ensemble_metric : { << >>, << "metric" >> },
                     named_value : { << >> } \cup
                         { << v >> : v \in metric_names_for_class \cup OtherNames } ] :
          IF tag.ensemble_metric = << >> \/ tag.named_value = << >>
          THEN /\ caller' = "crashed"
               /\ UNCHANGED ensemble_filter
          ELSE /\ ensemble_filter' = [ ensemble_metric_ |-> tag.ensemble_metric[1],
                                       named_value_ |-> tag.named_value[1] ]
               /\ UNCHANGED caller
    /\ UNCHANGED << configuration, mpi, threads, accumulated, mutexes, workvec,
                    history >>

\* EnsembleFilter::validate_my_configuration() that only checks the filter's
\* members and never reports.
validate_my_configuration_reading_only(r) ==
    IF ensemble_filter.ensemble_metric_ = nullptr THEN { Throw(r) }
    ELSE IF ensemble_filter.named_value_ = "" THEN { Throw(r) }
    ELSE IF ensemble_filter.named_value_ \notin metric_names_for_class
    THEN { Throw(r) }
    ELSE { r }

\* EnsembleFilter::validate_my_configuration(): the filter must have its
\* metric and the name of one of the metric's values; a metric that is not
\* finalized is made to produce its final report.
validate_my_configuration(r) ==
    IF ensemble_filter.ensemble_metric_ = nullptr THEN { Throw(r) }
    ELSE IF ensemble_filter.named_value_ = "" THEN { Throw(r) }
    ELSE IF ensemble_filter.named_value_ \notin metric_names_for_class
    THEN { Throw(r) }
    ELSE IF ~r.m.finalized THEN produce_final_report(r)
    ELSE { r }

\* The entry points of the filter.
FilterEntries ==
    { "EnsembleFilter::apply", "EnsembleFilter::report_sm", "EnsembleFilter::report" }

\* EnsembleFilter::apply(), report_sm() and report(): each calls
\* validate_my_configuration() and then get_real_metric_value_by_name(
\* named_value_ ) on the metric, which throws unless the metric is finalized
\* and has the name; what they return and print changes no state.
EnsembleFilter(entry) ==
    /\ caller = "idle"
    /\ \E r \in validate_my_configuration(Running(Metric)) :
          Return(entry, -1, << >>,
                 IF /\ r.result = "ok"
                    /\ \/ ~r.m.finalized
                       \/ ensemble_filter.named_value_ \notin metric_names_for_class
                 THEN Throw(r) ELSE r)
    /\ UNCHANGED << configuration, mpi, threads, ensemble_filter, mutexes, workvec, was_reset >>

\* ~CentralTendencyEnsembleMetric(): a metric that is not finalized and has
\* counted a pose produces its final report.  An exception that leaves the
\* destructor ends the process (std::terminate).
destructor ==
    /\ caller = "idle"
    /\ \E r \in IF ~finalized_ /\ poses_in_ensemble_ > 0
                 THEN produce_final_report(Running(Metric))
                 ELSE { Running(Metric) } :
          /\ Store(r.m)
          /\ caller' = IF r.result = "ok" THEN "destroyed" ELSE "crashed"
          /\ last_call' = Call("destructor", -1, << >>,
                               IF r.result = "ok" THEN r ELSE Crash(r))
          /\ failed_since_reset' = (failed_since_reset \/ r.result # "ok")
    /\ UNCHANGED << configuration, mpi, threads, ensemble_filter, mutexes, workvec, ensemble,
                    was_reset >>

\* --------------------------------------- apply() called by several threads
\* Threads that call apply() on the one metric at the same time.
MaxCallers == 2

\* Thread t is at position pc of its call.
At(t, pc) == t \in DOMAIN threads /\ threads[t].pc = pc

ThreadStep(t, pc, loaded, size) ==
    threads' = [ threads EXCEPT ![t].pc = pc, ![t].loaded = loaded, ![t].size = size ]

\* One more thread calls apply( pose ) on a metric without an
\* ensemble-generating protocol that does not use additional output: the two
\* assertions, then ++poses_in_ensemble_ and add_pose_to_ensemble( pose ),
\* which this branch of apply() runs without a lock.
thread_apply(pose) ==
    /\ Len(threads) < MaxCallers
    /\ ensemble_generating_protocol_ = nullptr
    /\ ~(use_additional_output_from_last_mover_ /\ last_mover_ # nullptr)
    /\ threads' = Append(threads,
                         [ pc |-> IF apply_allowed /\ apply_mpi_allowed
                                  THEN "load_count" ELSE "failed",
                           pose |-> pose, loaded |-> -1, size |-> -1 ])
    /\ UNCHANGED << configuration, ensemble_filter, accumulated, mutexes, caller, workvec, history,
                    mpi >>

\* ++poses_in_ensemble_: the load ...
thread_load_count(t) ==
    /\ At(t, "load_count")
    /\ ThreadStep(t, "count_pose", poses_in_ensemble_, -1)
    /\ UNCHANGED << configuration, ensemble_filter, accumulated, mutexes, caller, workvec, history,
                    mpi >>

\* ... and the store; then the assertion of add_pose_to_ensemble().
thread_count_pose(t) ==
    /\ At(t, "count_pose")
    /\ poses_in_ensemble_' = threads[t].loaded + 1
    /\ ThreadStep(t, IF simple_metric_ = nullptr THEN "failed" ELSE "read_size",
                  threads[t].loaded, -1)
    /\ UNCHANGED << configuration, ensemble_filter, finalized_, values_, statistics,
                    derived_finalized_, mutexes, caller, workvec, history, mpi >>

\* values_.push_back( ... ): the size is read ...
thread_read_size(t) ==
    /\ At(t, "read_size")
    /\ ThreadStep(t, "push_back", threads[t].loaded, Len(values_))
    /\ UNCHANGED << configuration, ensemble_filter, accumulated, mutexes, caller, workvec, history,
                    mpi >>

\* ... and the value is written after that many elements, which makes the
\* size one more than was read; apply() returns.
thread_push_back(t) ==
    /\ At(t, "push_back")
    /\ values_' = SubSeq(values_, 1, threads[t].size) \o << threads[t].pose >>
    /\ ThreadStep(t, "done", threads[t].loaded, threads[t].size)
    /\ UNCHANGED << configuration, ensemble_filter, finalized_, poses_in_ensemble_, statistics,
                    derived_finalized_, mutexes, caller, workvec, history, mpi >>

\* ------------------------------------- collection by MPI, message by message
\* The other processes: ranks 1..NPeers; this process has rank 0.
NPeers == 2
Peers == 1..NPeers

\* The rank of this process: the receiving_node_index that the other
\* processes pass to send_mpi_summary().
receiving_node_index == 0

\* What one MPI_Send hands over: the rank it is addressed to, a datatype and
\* that many elements.
MessageTo(dest, type, data) == [ dest |-> dest, type |-> type, data |-> data ]

\* A message to this process.
Message(type, data) == MessageTo(receiving_node_index, type, data)

\* values_.resize() value-initialises the new elements.
Zeros(n) == [ k \in 1..n |-> 0 ]

\* Everything of this process but the values, the count and what a receive
\* sets.
RestOfMetric ==
    << configuration, finalized_, statistics, derived_finalized_, mutexes, workvec,
       was_reset, threads, ensemble_filter >>

\* send_mpi_summary() that addresses the count to the process after the
\* sender instead of receiving_node_index.
peer_send_mpi_summary_to_next(p) ==
    /\ peers[p].pc = "idle"
    /\ IF peers[p].poses # Len(peers[p].values)
       THEN /\ peers' = [ peers EXCEPT ![p].pc = "failed" ]
            /\ UNCHANGED channel
       ELSE /\ peers' = [ peers EXCEPT ![p].pc = "send_count" ]
            /\ channel' = [ channel EXCEPT
                              ![p] = Append(@, MessageTo(p + 1, "MPI_INT",
                                                         << peers[p].poses >>)) ]
    /\ UNCHANGED << RestOfMetric, poses_in_ensemble_, values_, caller, history,
                    receiver >>

\* send_mpi_summary( receiving_node_index ) on process p, up to its first
\* MPI_Send: the assertion that the count is the size of values_, then the
\* count goes out.
peer_send_mpi_summary(p) ==
    /\ peers[p].pc = "idle"
    /\ IF peers[p].poses # Len(peers[p].values)
       THEN /\ peers' = [ peers EXCEPT ![p].pc = "failed" ]
            /\ UNCHANGED channel
       ELSE /\ peers' = [ peers EXCEPT ![p].pc = "send_count" ]
            /\ channel' = [ channel EXCEPT
                              ![p] = Append(@, MessageTo(receiving_node_index, "MPI_INT",
                                                         << peers[p].poses >>)) ]
    /\ UNCHANGED << RestOfMetric, poses_in_ensemble_, values_, caller, history,
                    receiver >>

\* send_mpi_summary() that sends the array of values whatever the count.
send_values_if_any_unconditional(p) ==
    /\ peers' = [ peers EXCEPT ![p].pc = "send_values" ]
    /\ channel' = [ channel EXCEPT
                      ![p] = Append(@, MessageTo(receiving_node_index, "MPI_DOUBLE",
                                                  peers[p].values)) ]

\* send_mpi_summary() after the MPI_Send of the count has returned: the
\* values go out if there are any.
send_values_if_any(p) ==
    IF peers[p].poses > 0
    THEN /\ peers' = [ peers EXCEPT ![p].pc = "send_values" ]
         /\ channel' = [ channel EXCEPT
                           ![p] = Append(@, MessageTo(receiving_node_index, "MPI_DOUBLE",
                                                  peers[p].values)) ]
    ELSE /\ peers' = [ peers EXCEPT ![p].pc = "done" ]
         /\ UNCHANGED channel

\* The MPI_Send of the count returns because its message has been received.
count_sent(p) ==
    /\ peers[p].pc = "send_count"
    /\ channel[p] = << >>
    /\ send_values_if_any(p)
    /\ UNCHANGED << RestOfMetric, poses_in_ensemble_, values_, caller, history,
                    receiver >>

\* The MPI_Send of the count returns because the library has buffered its
\* message (a standard-mode send may return before the receive).
count_buffered(p) ==
    /\ peers[p].pc = "send_count"
    /\ channel[p] # << >>
    /\ send_values_if_any(p)
    /\ UNCHANGED << RestOfMetric, poses_in_ensemble_, values_, caller, history,
                    receiver >>

\* The MPI_Send of the values returns because its message has been received;
\* send_mpi_summary() returns.
values_sent(p) ==
    /\ peers[p].pc = "send_values"
    /\ channel[p] = << >>
    /\ peers' = [ peers EXCEPT ![p].pc = "done" ]
    /\ UNCHANGED << RestOfMetric, poses_in_ensemble_, values_, caller, history,
                    channel, receiver >>

\* The MPI_Send of the values returns because the library has buffered it.
values_buffered(p) ==
    /\ peers[p].pc = "send_values"
    /\ channel[p] # << >>
    /\ peers' = [ peers EXCEPT ![p].pc = "done" ]
    /\ UNCHANGED << RestOfMetric, poses_in_ensemble_, values_, caller, history,
                    channel, receiver >>

\* recv_mpi_summary() is called and blocks in its MPI_Recv from any source.
recv_begin ==
    /\ caller = "idle"
    /\ caller' = "in_recv"
    /\ receiver' = [ receiver EXCEPT !.pc = "count" ]
    /\ last_call' = [ Call("recv_mpi_summary", -1, << >>, Running(Metric))
                        EXCEPT !.result = "running" ]
    /\ UNCHANGED << RestOfMetric, poses_in_ensemble_, values_, ensemble,
                    failed_since_reset, peers, channel >>

\* How a call of recv_mpi_summary() ends: by return of process q ("ok"), by
\* a failed assertion ("fail") or with the process stopped ("crash").
recv_ends(result, q, received) ==
    /\ caller' = IF result = "crash" THEN "crashed" ELSE "idle"
    /\ last_call' = [ last_call EXCEPT !.result = result ]
    /\ failed_since_reset' = (failed_since_reset \/ result # "ok")
    /\ ensemble' = ensemble \o received
    /\ receiver' = Receiver(receiver.start.poses, receiver.start.values,
                            IF result = "ok" THEN Append(receiver.from, q)
                            ELSE receiver.from)

\* The MPI_Recv from MPI_ANY_SOURCE matches the oldest message of process p.
\* A message that is not one int is an erroneous receive and the library
\* stops the process.  A count of 0 returns p; a positive count resizes
\* values_ and goes on to the MPI_Recv from p.
recv_count(p) ==
    /\ caller = "in_recv"
    /\ receiver.pc = "count"
    /\ channel[p] # << >>
    /\ Head(channel[p]).dest = receiving_node_index
    /\ channel' = [ channel EXCEPT ![p] = Tail(@) ]
    /\ LET m == Head(channel[p])
           n == m.data[1]
       IN  IF m.type # "MPI_INT" \/ Len(m.data) # 1
           THEN /\ recv_ends("crash", p, << >>)
                /\ UNCHANGED values_
           ELSE IF n < 0
           THEN /\ recv_ends("fail", p, << >>)
                /\ UNCHANGED values_
           ELSE IF n = 0
           THEN /\ recv_ends("ok", p, << >>)
                /\ UNCHANGED values_
           ELSE /\ values_' = values_ \o Zeros(n)
                /\ receiver' = [ receiver EXCEPT !.pc = "values",
                                                 !.n_additional_poses = n,
                                                 !.originating_proc = p,
                                                 !.oldsize = Len(values_) ]
                /\ UNCHANGED << caller, history >>
    /\ UNCHANGED << RestOfMetric, poses_in_ensemble_, peers >>

\* The second MPI_Recv writing at values_.data() instead of
\* values_.data() + oldsize.
payload_received_at_front(q, m) ==
    IF m.type # "MPI_DOUBLE" \/ Len(m.data) > receiver.n_additional_poses
    THEN /\ recv_ends("crash", q, << >>)
         /\ UNCHANGED << values_, poses_in_ensemble_ >>
    ELSE /\ values_' = m.data \o SubSeq(values_, Len(m.data) + 1, Len(values_))
         /\ IF q # receiver.originating_proc
            THEN /\ recv_ends("fail", q, << >>)
                 /\ UNCHANGED poses_in_ensemble_
            ELSE /\ recv_ends("ok", q, m.data)
                 /\ poses_in_ensemble_' =
                       poses_in_ensemble_ + receiver.n_additional_poses

\* The second MPI_Recv without increment_poses_in_ensemble().
payload_received_uncounted(q, m) ==
    IF m.type # "MPI_DOUBLE" \/ Len(m.data) > receiver.n_additional_poses
    THEN /\ recv_ends("crash", q, << >>)
         /\ UNCHANGED << values_, poses_in_ensemble_ >>
    ELSE /\ values_' = SubSeq(values_, 1, receiver.oldsize) \o m.data
                          \o Zeros(receiver.n_additional_poses - Len(m.data))
         /\ IF q # receiver.originating_proc
            THEN /\ recv_ends("fail", q, << >>)
                 /\ UNCHANGED poses_in_ensemble_
            ELSE /\ recv_ends("ok", q, m.data)
                 /\ UNCHANGED poses_in_ensemble_

\* recv_mpi_summary() from the return of its second MPI_Recv, which has
\* matched message m of process q and written it into values_ from oldsize
\* on (a message that is not of doubles, or is longer than the count, is an
\* erroneous receive and the library stops the process): the assertion on
\* the source of the message, then increment_poses_in_ensemble().
payload_received(q, m) ==
    IF m.type # "MPI_DOUBLE" \/ Len(m.data) > receiver.n_additional_poses
    THEN /\ recv_ends("crash", q, << >>)
         /\ UNCHANGED << values_, poses_in_ensemble_ >>
    ELSE /\ values_' = SubSeq(values_, 1, receiver.oldsize) \o m.data
                          \o Zeros(receiver.n_additional_poses - Len(m.data))
         /\ IF q # receiver.originating_proc
            THEN /\ recv_ends("fail", q, << >>)
                 /\ UNCHANGED poses_in_ensemble_
            ELSE /\ recv_ends("ok", q, m.data)
                 /\ poses_in_ensemble_' =
                       poses_in_ensemble_ + receiver.n_additional_poses

\* The second MPI_Recv posted for MPI_ANY_SOURCE.
recv_values_any_source ==
    /\ caller = "in_recv"
    /\ receiver.pc = "values"
    /\ \E q \in Peers :
          /\ channel[q] # << >>
          /\ Head(channel[q]).dest = receiving_node_index
          /\ channel' = [ channel EXCEPT ![q] = Tail(@) ]
          /\ payload_received(q, Head(channel[q]))
    /\ UNCHANGED << RestOfMetric, peers >>

\* The MPI_Recv from originating_proc matches the oldest message of that
\* process.
recv_values ==
    /\ caller = "in_recv"
    /\ receiver.pc = "values"
    /\ LET q == receiver.originating_proc
       IN  /\ channel[q] # << >>
           /\ Head(channel[q]).dest = receiving_node_index
           /\ channel' = [ channel EXCEPT ![q] = Tail(@) ]
           /\ payload_received(q, Head(channel[q]))
    /\ UNCHANGED << RestOfMetric, peers >>

\* A transport that breaks the rules of MPI: the MPI_Recv posted for
\* originating_proc is handed the array of values that another process q
\* has sent, with q as the source in its status.
recv_values_misdelivered(q) ==
    /\ caller = "in_recv"
    /\ receiver.pc = "values"
    /\ q # receiver.originating_proc
    /\ \E k \in DOMAIN channel[q] :
          /\ channel[q][k].type = "MPI_DOUBLE"
          /\ channel' = [ channel EXCEPT
                            ![q] = SubSeq(@, 1, k - 1) \o SubSeq(@, k + 1, Len(@)) ]
          /\ payload_received(q, channel[q][k])
    /\ UNCHANGED << RestOfMetric, peers >>

\* ------------------------------------------------- configuration from a tag
\* The members that the setters write, as one record.
Settings ==
    [ label_prefix    |-> label_prefix_,
      label_suffix    |-> label_suffix_,
      protocol        |-> ensemble_generating_protocol_,
      repeats         |-> ensemble_generating_protocol_repeats_,
      n_threads       |-> n_threads_,
      use_additional  |-> use_additional_output_from_last_mover_,
      output_mode     |-> output_mode_,
      output_filename |-> output_filename_,
      simple_metric   |-> simple_metric_ ]

Configure(c) ==
    /\ label_prefix_' = c.label_prefix
    /\ label_suffix_' = c.label_suffix
    /\ ensemble_generating_protocol_' = c.protocol
    /\ ensemble_generating_protocol_repeats_' = c.repeats
    /\ n_threads_' = c.n_threads
    /\ use_additional_output_from_last_mover_' = c.use_additional
    /\ output_mode_' = c.output_mode
    /\ output_filename_' = c.output_filename
    /\ simple_metric_' = c.simple_metric

\* A sequence of settings: c is what the members hold, ok whether no
\* assertion has failed so far; a step is taken only while ok.
Setting(c) == [ c |-> c, ok |-> TRUE ]
Thrown(s) == [ s EXCEPT !.ok = FALSE ]

hasOption(tag, option) == tag[option] # << >>
getOption(tag, option) == tag[option][1]

\* set_ensemble_generating_protocol_repeats( setting ) that stores a count
\* of 0 as any other.
set_ensemble_generating_protocol_repeats_unchecked(s, setting) ==
    [ s EXCEPT !.c.repeats = setting ]

\* set_ensemble_generating_protocol_repeats( setting ): the assertion
\* setting > 0, then the assignment.
set_ensemble_generating_protocol_repeats(s, setting) ==
    IF setting > 0 THEN [ s EXCEPT !.c.repeats = setting ] ELSE Thrown(s)

\* output_mode_enum_from_name( mode_name ): UNKNOWN_MODE for a name that no
\* mode has.
output_mode_enum_from_name(mode_name) ==
    IF mode_name = "tracer" THEN "TRACER"
    ELSE IF mode_name = "tracer_and_file" THEN "TRACER_AND_FILE"
    ELSE IF mode_name = "file" THEN "FILE"
    ELSE "UNKNOWN_MODE"

\* set_output_mode( mode_string )
set_output_mode(s, mode_string) ==
    LET mode_enum == output_mode_enum_from_name(mode_string)
    IN  IF mode_enum = "UNKNOWN_MODE" THEN Thrown(s)
        ELSE [ s EXCEPT !.c.output_mode = mode_enum ]

\* parse_common_ensemble_metric_options() without its last assertion.
mpi_collection_unchecked(s, supported) == s

\* The last assertion of parse_common_ensemble_metric_options() (MPI build):
\* without an ensemble-generating protocol and without the additional
\* output of the last mover, the class must support collection by MPI.
mpi_collection_checked(s, supported) ==
    IF s.c.protocol = nullptr /\ ~s.c.use_additional /\ ~supported
    THEN Thrown(s) ELSE s

\* parse_common_ensemble_metric_options( tag, data ) on the members c, for a
\* class whose supports_mpi() returns supported: the setters in their order,
\* up to the first assertion that fails.
parse_common_ensemble_metric_options(c, tag, supported) ==
    LET s0 == Setting(c)
        s1 == IF hasOption(tag, "label_prefix")
              THEN [ s0 EXCEPT !.c.label_prefix = getOption(tag, "label_prefix") ]
              ELSE s0
        s2 == IF hasOption(tag, "label_suffix")
              THEN [ s1 EXCEPT !.c.label_suffix = getOption(tag, "label_suffix") ]
              ELSE s1
        s3 == IF hasOption(tag, "ensemble_generating_protocol")
              THEN LET set == [ s2 EXCEPT !.c.protocol =
                                   getOption(tag, "ensemble_generating_protocol") ]
                   IN  IF hasOption(tag, "ensemble_generating_protocol_repeats")
                       THEN set_ensemble_generating_protocol_repeats(
                                set, getOption(tag, "ensemble_generating_protocol_repeats"))
                       ELSE set
              ELSE s2
        s4 == IF s3.ok /\ hasOption(tag, "n_threads")
              THEN [ s3 EXCEPT !.c.n_threads = getOption(tag, "n_threads") ]
              ELSE s3
        s5 == IF s4.ok /\ hasOption(tag, "use_additional_output_from_last_mover")
              THEN [ s4 EXCEPT !.c.use_additional =
                        getOption(tag, "use_additional_output_from_last_mover") ]
              ELSE s4
        s6 == IF s5.ok /\ hasOption(tag, "output_mode")
              THEN set_output_mode(s5, getOption(tag, "output_mode"))
              ELSE s5
        s7 == IF s6.ok /\ hasOption(tag, "output_filename")
              THEN IF s6.c.output_mode = "TRACER" THEN Thrown(s6)
                   ELSE [ s6 EXCEPT !.c.output_filename =
                             getOption(tag, "output_filename") ]
              ELSE s6
    IN  IF s7.ok THEN mpi_collection_checked(s7, supported) ELSE s7

\* CentralTendencyEnsembleMetric::parse_my_tag( tag, data ):
\* parse_common_ensemble_metric_options(), then the simple metric that the
\* tag names (found in the data map).  A class without MPI functions of its
\* own is taken to parse its tag in the same way.
parse_my_tag_settings(c, tag, supported) ==
    LET s == parse_common_ensemble_metric_options(c, tag, supported)
    IN  IF s.ok /\ hasOption(tag, "real_valued_metric")
        THEN [ s EXCEPT !.c.simple_metric = getOption(tag, "real_valued_metric") ]
        ELSE s

\* The tags of the scripts explored: labels and a file name come together,
\* and the simple metric is named.
Tags ==
    { tag \in [ label_prefix : { << >>, << "pre" >> },
                label_suffix : { << >>, << "suf" >> },
                ensemble_generating_protocol : { << >>, << "protocol" >> },
                ensemble_generating_protocol_repeats :
                    { << >> } \cup { << n >> : n \in 0..MaxRepeats },
                n_threads : { << >>, << 1 >> },
                use_additional_output_from_last_mover :
                    { << >>, << TRUE >>, << FALSE >> },
                output_mode : { << >>, << "file" >>, << "screen" >> },
                output_filename : { << >>, << "report.txt" >> },
                real_valued_metric : { << "metric" >> } ] :
        /\ hasOption(tag, "label_prefix") <=> hasOption(tag, "output_filename")
        /\ hasOption(tag, "label_suffix") <=> hasOption(tag, "output_filename") }

\* How a call that configures the metric ends.
Configured_by(op, tag, s) ==
    /\ Configure(s.c)
    /\ last_call' = [ NoCall EXCEPT !.op = op, !.tag = tag,
                                    !.result = IF s.ok THEN "ok" ELSE "fail" ]
    /\ failed_since_reset' = (failed_since_reset \/ ~s.ok)
    /\ UNCHANGED << metric_class, last_mover_, accumulated, mutexes, caller,
                    workvec, ensemble, was_reset, mpi, threads,
                    ensemble_filter >>

\* The factory parses the tag of a metric it has just created.
parse_my_tag ==
    /\ caller = "idle"
    /\ last_call.op = "none"
    /\ \E tag \in Tags :
          Configured_by("parse_my_tag", tag,
                        parse_my_tag_settings(Settings, tag, supports_mpi))

\* A call of the setter of the repeat count from code.
set_repeats ==
    /\ caller = "idle"
    /\ \E setting \in 0..MaxRepeats :
          Configured_by("set_ensemble_generating_protocol_repeats",
                        [ NoTag EXCEPT !.ensemble_generating_protocol_repeats =
                                          << setting >> ],
                        set_ensemble_generating_protocol_repeats(
                            Setting(Settings), setting))

\* ----------------------------------------------------------- specifications
\* The positions a work vector can have.
WorkItems == 1..MaxRepeats

\* A step of the thread that runs work item i.
WorkItemStep(i) ==
    \/ start_work_item(i)
    \/ lock_pose(i)
    \/ copy_pose(i)
    \/ lock_protocol(i)
    \/ clone_protocol(i)
    \/ apply_protocol(i)
    \/ lock_metric(i)
    \/ load_count(i)
    \/ count_pose(i)
    \/ add_pose(i)
    \/ lock_output(i)
    \/ copy_output(i)

Next ==
    \/ \E pose \in Values : apply(pose)
    \/ \E i \in WorkItems : WorkItemStep(i)
    \/ apply_return
    \/ report
    \/ reset
    \/ recv_mpi_summary
    \/ send_mpi_summary

\* One metric, configured in any way the parser allows with the default
\* thread-count request (1), and used by one caller.
Init == InitWith(Configurations({ 1 }))

Spec == Init /\ [][Next]_vars

\* Generation with work items that run at once: a metric with its simple
\* metric, an ensemble-generating protocol and a last mover, reporting to the
\* tracer, with a thread-count request of 1 or of 0 (all available threads).
GenerationConfigurations ==
    { c \in Configurations({ 0, 1 }) :
        /\ c.protocol # nullptr
        /\ c.simple_metric # nullptr
        /\ c.last_mover # nullptr
        /\ c.output_mode = "TRACER" }

InitGen == InitWith(GenerationConfigurations)

NextGen ==
    \/ \E pose \in Values : apply(pose)
    \/ \E i \in WorkItems : WorkItemStep(i)
    \/ apply_return
    \/ reset

SpecGen == InitGen /\ [][NextGen]_vars

\* The same with threads that go on: a work item that can take a step takes
\* it (the thread manager runs every entry of the work vector, and a thread
\* that waits for a mutex gets it once it is free for good).
SpecGenFair ==
    /\ InitGen
    /\ [][NextGen]_vars
    /\ \A i \in WorkItems : WF_vars(WorkItemStep(i))

\* Collection by MPI: this process is the one that receives; it has its
\* simple metric, measures the poses it is given and has measured some; each
\* other process has measured some poses of its own and sends its summary
\* once; the other processes run the same script, so that either each of
\* them has reported on the values it has (a process without values cannot)
\* or none has.  All the values together fit MaxPoses.
CollectingConfigurations ==
    { c \in Configurations({ 1 }) :
        /\ c.simple_metric # nullptr
        /\ c.protocol = nullptr
        /\ c.last_mover = nullptr
        /\ ~c.use_additional
        /\ c.output_mode = "TRACER" }

InitMPI ==
    /\ Configured(CollectingConfigurations)
    /\ Constructed
    /\ \E own \in SeqsUpTo(MaxPoses), theirs \in [ Peers -> SeqsUpTo(MaxPoses) ],
          reported \in BOOLEAN :
          /\ Len(own) + SumLen([ p \in Peers |-> theirs[p] ]) <= MaxPoses
          /\ reported => \E p \in Peers : theirs[p] # << >>
          /\ values_ = own
          /\ poses_in_ensemble_ = Len(own)
          /\ ensemble = own
          /\ receiver = Receiver(Len(own), own, << >>)
          /\ peers = [ p \in Peers |->
                         [ pc |-> "idle", poses |-> Len(theirs[p]),
                           values |-> theirs[p],
                           finalized |-> reported /\ theirs[p] # << >>,
                           derived_finalized |-> reported /\ theirs[p] # << >>,
                           stats |-> IF reported /\ theirs[p] # << >>
                                     THEN ComputeStatistics(theirs[p], Len(theirs[p]))
                                     ELSE ZeroStatistics ] ]
    /\ channel = [ p \in Peers |-> << >> ]

PeerStep(p) ==
    \/ peer_send_mpi_summary(p)
    \/ count_sent(p)
    \/ count_buffered(p)
    \/ values_sent(p)
    \/ values_buffered(p)

NextMPI ==
    \/ \E p \in Peers : PeerStep(p)
    \/ recv_begin
    \/ \E p \in Peers : recv_count(p)
    \/ recv_values

SpecMPI == InitMPI /\ [][NextMPI]_vars

\* Collection by MPI from processes that send more than one summary: the
\* scripts of the other processes call send_mpi_summary() again, after it has
\* returned, up to MaxRepeatedCalls times in all (the function is const, so
\* each summary of a process carries the same values), and this process,
\* which begins empty, receives them one call after the other.
MaxRepeatedCalls == 1

\* The calls of send_mpi_summary() beyond the first of each process: a call
\* has been made for each count that is in flight, that a receive has
\* returned or that the running receive has taken, and one is about to be
\* made by each process that stands before its assertion.
repeated_calls ==
    SumLen([ p \in Peers |->
               SelectSeq(channel[p], LAMBDA m : m.type = "MPI_INT") ])
      + Len(receiver.from)
      + (IF receiver.pc = "values" THEN 1 ELSE 0)
      + Cardinality({ p \in Peers : peers[p].pc = "idle" })
      - NPeers

\* send_mpi_summary() has returned on process p and its script calls it
\* again.
peer_calls_again(p) ==
    /\ peers[p].pc = "done"
    /\ repeated_calls < MaxRepeatedCalls
    /\ peers' = [ peers EXCEPT ![p].pc = "idle" ]
    /\ UNCHANGED << RestOfMetric, poses_in_ensemble_, values_, caller, history,
                    channel, receiver >>

InitFlight ==
    /\ Configured(CollectingConfigurations)
    /\ Constructed
    /\ values_ = << >>
    /\ poses_in_ensemble_ = 0
    /\ ensemble = << >>
    /\ receiver = Receiver(0, << >>, << >>)
    /\ \E theirs \in [ Peers -> { Zeros(k) : k \in 0..1 } ] :
          peers = [ p \in Peers |->
                      [ pc |-> "idle", poses |-> Len(theirs[p]),
                        values |-> theirs[p], finalized |-> FALSE,
                        derived_finalized |-> FALSE, stats |-> ZeroStatistics ] ]
    /\ channel = [ p \in Peers |-> << >> ]

NextFlight ==
    \/ \E p \in Peers : PeerStep(p)
    \/ \E p \in Peers : peer_calls_again(p)
    \/ recv_begin
    \/ \E p \in Peers : recv_count(p)
    \/ recv_values

SpecFlight == InitFlight /\ [][NextFlight]_vars

\* The same with a transport that may hand a receive the values of another
\* process.
NextFault ==
    \/ \E p \in Peers : PeerStep(p)
    \/ recv_begin
    \/ \E p \in Peers : recv_count(p)
    \/ recv_values
    \/ \E q \in Peers : recv_values_misdelivered(q)

SpecFault == InitMPI /\ [][NextFault]_vars

\* The star that the job distributor sets up: every MPI_Send is synchronous
\* (it returns only once its message has been received) and this process
\* calls recv_mpi_summary() once for each other process, one call after the
\* other.
recv_for_each_peer == Len(receiver.from) < NPeers /\ recv_begin

SendStep(p) ==
    \/ peer_send_mpi_summary(p)
    \/ count_sent(p)
    \/ values_sent(p)

RecvStep ==
    \/ recv_for_each_peer
    \/ \E p \in Peers : recv_count(p)
    \/ recv_values

NextStar ==
    \/ \E p \in Peers : SendStep(p)
    \/ RecvStep

\* Every process runs on its own: one that can go on does go on, and a
\* blocking MPI call returns once it has been matched.
SpecStar ==
    /\ InitMPI
    /\ [][NextStar]_vars
    /\ \A p \in Peers : WF_vars(SendStep(p))
    /\ WF_vars(RecvStep)

\* Configuration: a metric of either class as its constructor leaves it (the
\* last mover is set by the script before any apply()), configured by its
\* tag and by the setter of the repeat count, and then used.
InitConfigure ==
    /\ metric_class \in { "CentralTendencyEnsembleMetric", "EnsembleMetric" }
    /\ simple_metric_ = nullptr
    /\ ensemble_generating_protocol_ = nullptr
    /\ last_mover_ = "mover"
    /\ use_additional_output_from_last_mover_ = FALSE
    /\ ensemble_generating_protocol_repeats_ = 1
    /\ n_threads_ = 1
    /\ output_mode_ = "TRACER"
    /\ output_filename_ = ""
    /\ label_prefix_ = ""
    /\ label_suffix_ = ""
    /\ Constructed
    /\ poses_in_ensemble_ = 0
    /\ values_ = << >>
    /\ ensemble = << >>
    /\ peers = << >>
    /\ channel = << >>
    /\ receiver = Receiver(0, << >>, << >>)

NextConfigure ==
    \/ parse_my_tag
    \/ set_repeats
    \/ \E pose \in Values : apply(pose)
    \/ \E i \in WorkItems : WorkItemStep(i)
    \/ apply_return
    \/ recv_mpi_summary
    \/ send_mpi_summary

SpecConfigure == InitConfigure /\ [][NextConfigure]_vars

\* The statistics alone: a CentralTendencyEnsembleMetric with its simple
\* metric, reporting to the tracer, that has measured a sequence of at most
\* MaxSampleLen poses in turn, with values from Samples; it is asked for its
\* report.
MaxSample == 2
MaxSampleLen == 5
Samples == -1..MaxSample
SampleSeqs == UNION { [ 1..k -> Samples ] : k \in 0..MaxSampleLen }

InitStatistics ==
    /\ Configured(CollectingConfigurations)
    /\ Constructed
    /\ values_ \in SampleSeqs
    /\ poses_in_ensemble_ = Len(values_)
    /\ ensemble = values_
    /\ peers = << >>
    /\ channel = << >>
    /\ receiver = Receiver(0, << >>, << >>)

NextStatistics ==
    \/ report
    \/ reset

SpecStatistics == InitStatistics /\ [][NextStatistics]_vars

\* Several threads call apply() on one metric that measures the poses it is
\* given.
Callers == 1..MaxCallers

NextCallers ==
    \/ \E pose \in Values : thread_apply(pose)
    \/ \E t \in Callers : thread_load_count(t)
    \/ \E t \in Callers : thread_count_pose(t)
    \/ \E t \in Callers : thread_read_size(t)
    \/ \E t \in Callers : thread_push_back(t)

SpecCallers == InitWith(CollectingConfigurations) /\ [][NextCallers]_vars

\* The metric in the hands of the script that owns it: poses are applied to
\* it (there is no ensemble-generating protocol), it is reported and reset,
\* a filter is made that reads it, and at the end it is destroyed.
OwnedConfigurations == { c \in Configurations({ 1 }) : c.protocol = nullptr }

InitOwned == InitWith(OwnedConfigurations)

NextOwned ==
    \/ \E pose \in Values : apply(pose)
    \/ report
    \/ reset
    \/ EnsembleFilter_parse_my_tag
    \/ \E entry \in FilterEntries : EnsembleFilter(entry)
    \/ destructor

SpecOwned == InitOwned /\ [][NextOwned]_vars

\* ---------------------------------------------------------------- the modes
\* The three modes of apply(), by the configuration that selects them.
ExternalSampleMode ==
    ensemble_generating_protocol_ = nullptr /\ ~use_additional_output_from_last_mover_
MultiOutputDrainMode ==
    /\ ensemble_generating_protocol_ = nullptr
    /\ use_additional_output_from_last_mover_
    /\ last_mover_ # nullptr
GenerateEnsembleMode == ensemble_generating_protocol_ # nullptr

\* The step is a call of apply() by the idle caller.
ApplyCalled == caller = "idle" /\ last_call'.op = "apply"

\* ------------------------------------------------------------------ claims
\* C1: between operations, after any calls of apply(), produce_final_report()
\* and reset(), failed ones included, poses_in_ensemble() is the number of
\* values stored in values_.
C1_count_is_number_of_values ==
    caller = "idle" => poses_in_ensemble_ = Len(values_)

\* C2: apply() on a finalized metric fails in every mode and leaves values_,
\* the count and the finalized flag as they were.
C2_apply_on_finalized_fails ==
    [][ (ApplyCalled /\ finalized_) =>
            /\ last_call'.result = "fail"
            /\ values_' = values_
            /\ poses_in_ensemble_' = poses_in_ensemble_
            /\ finalized_' = finalized_ ]_vars

\* A finalized metric with an ensemble-generating protocol on which apply()
\* has just failed.
C2_witness ==
    /\ GenerateEnsembleMode
    /\ finalized_
    /\ caller = "idle"
    /\ last_call.op = "apply"
    /\ last_call.result = "fail"
    /\ values_ # << >>

\* C3: produce_final_report() on a metric without samples (here one that
\* has its simple metric) fails, on the first call and on every repeated one,
\* and leaves the metric not finalized, so that no accessor and no lookup by
\* name returns a value afterwards.
C3_report_without_samples_fails ==
    [][ ( /\ caller = "idle"
          /\ last_call'.op = "produce_final_report"
          /\ simple_metric_ # nullptr
          /\ poses_in_ensemble_ = 0
          /\ values_ = << >> ) =>
            /\ last_call'.result = "fail"
            /\ ~finalized_' ]_vars

\* The eight names of the claim and the accessor that goes with each.
EightNames ==
    { "mean", "median", "mode", "stddev", "stderr", "min", "max", "range" }

AccessorNamed(metric_name) ==
    CASE metric_name = "mean" -> mean
      [] metric_name = "median" -> median
      [] metric_name = "mode" -> mode
      [] metric_name = "stddev" -> stddev
      [] metric_name = "stderr" -> stderror
      [] metric_name = "min" -> min
      [] metric_name = "max" -> max
      [] metric_name = "range" -> range

\* C4: the lookup by name fails for every name while the metric is not
\* finalized; on a finalized metric it fails for every name that is not one of
\* the eight and for each of the eight returns what the accessor of that name
\* returns; the accessors fail while the metric is not finalized.
C4_lookup_by_name_agrees_with_accessors ==
    /\ \A metric_name \in EightNames \cup OtherNames :
          /\ ~finalized_ => ~get_metric_by_name(metric_name).ok
          /\ metric_name \notin EightNames => ~get_metric_by_name(metric_name).ok
          /\ (finalized_ /\ metric_name \in EightNames) =>
                /\ get_metric_by_name(metric_name).ok
                /\ get_metric_by_name(metric_name) = AccessorNamed(metric_name)
    /\ ~finalized_ =>
          \A metric_name \in EightNames : ~AccessorNamed(metric_name).ok

\* A finalized metric whose eight statistics tell the names apart where they
\* can differ: two values 0 and 1.
C4_witness ==
    /\ finalized_
    /\ stddev_ # stderr_
    /\ min_ # max_
    /\ mean_ # max_
    /\ get_metric_by_name("stderr").ok

\* C5: in external-sample mode a successful apply() adds exactly the measured
\* value, raises the count by one and leaves the metric not finalized; the
\* count is the number of samples taken in since construction or reset() (by
\* apply(), or received by recv_mpi_summary()); and finalized() becomes true
\* only at a call of produce_final_report().
C5_external_sample_mode ==
    [][ ExternalSampleMode =>
          /\ (ApplyCalled /\ last_call'.result = "ok") =>
                /\ values_' = Append(values_, last_call'.pose)
                /\ poses_in_ensemble_' = poses_in_ensemble_ + 1
                /\ ~finalized_'
          /\ ~failed_since_reset' => poses_in_ensemble_' = Len(ensemble')
          /\ (~finalized_ /\ finalized_') =>
                last_call'.op = "produce_final_report" ]_vars

\* Two successful calls of apply() in external-sample mode, not finalized.
C5_witness ==
    /\ ExternalSampleMode
    /\ last_mover_ # nullptr
    /\ last_call.op = "apply"
    /\ last_call.result = "ok"
    /\ ~failed_since_reset
    /\ poses_in_ensemble_ = 2
    /\ values_ = << 1, 0 >>
    /\ ~finalized_

\* Every entry of the work vector built for the repeat count has run.
AllWorkItemsCompleted ==
    /\ Len(workvec) = ensemble_generating_protocol_repeats_
    /\ \A j \in DOMAIN workvec : workvec[j].pc = "done"

\* The step ends an apply() that ran a work vector.
GeneratingApplyEnds == caller = "in_apply" /\ caller' # "in_apply"

ReportCanBeWritten ==
    output_mode_ \in { "FILE", "TRACER_AND_FILE" } => output_filename_ # ""

C8_reset_clears_data_and_keeps_configuration ==
    [][ last_call'.op = "reset" =>
            /\ poses_in_ensemble_' = 0
            /\ values_' = << >>
            /\ ~finalized_'
            /\ ~derived_finalized_'
            /\ Metric'.stats = ZeroStatistics
            /\ UNCHANGED configuration ]_vars

\* A reset() that has just cleared a finalized ensemble of a metric
\* configured away from the defaults.
C8_witness ==
    /\ last_call.op = "reset"
    /\ was_reset
    /\ poses_in_ensemble_ = 0
    /\ GenerateEnsembleMode
    /\ ensemble_generating_protocol_repeats_ = 2
    /\ use_additional_output_from_last_mover_
    /\ output_mode_ = "FILE"
    /\ output_filename_ # ""
    /\ label_prefix_ # ""

\* C9: once finalized() is true it stays true until reset(): only a call of
\* reset() takes it from true to false.
C9_finalized_until_reset ==
    [][ (finalized_ /\ ~finalized_') => last_call'.op = "reset" ]_vars

\* A finalized metric that has received further values and is still
\* finalized.
C9_witness ==
    /\ finalized_
    /\ caller = "idle"
    /\ last_call.op = "recv_mpi_summary"
    /\ Len(values_) = 2

\* A freshly constructed metric with the same configuration.
FreshMetric ==
    [ finalized |-> FALSE, poses |-> 0, values |-> << >>,
      derived_finalized |-> FALSE, stats |-> ZeroStatistics ]

\* What accumulating the values E on a fresh metric and finalizing can leave:
\* the metric holds E and the count Len(E), and produce_final_report() runs.
FreshlyFinalized(E) ==
    { r.m : r \in { s \in produce_final_report(
                              Running([ FreshMetric EXCEPT !.values = E,
                                                           !.poses = Len(E) ])) :
                       s.result = "ok" } }

\* C10: after a reset() that discarded a finalized ensemble, accumulating
\* an ensemble E2 without a failure and finalizing leaves the count and the
\* eight statistics that a fresh metric of the same configuration has after
\* accumulating E2 and finalizing.
C10_reset_leaks_nothing ==
    [][ ( /\ was_reset
          /\ ~finalized_
          /\ finalized_'
          /\ ~failed_since_reset' ) => Metric' \in FreshlyFinalized(ensemble') ]_vars

\* A second ensemble, finalized after a reset() that discarded a finalized
\* first one.
C10_witness ==
    /\ was_reset
    /\ ~failed_since_reset
    /\ finalized_
    /\ last_call.op = "produce_final_report"
    /\ last_call.result = "ok"
    /\ ensemble = << 0, 1 >>
    /\ values_ = ensemble
    /\ stddev_ # ZeroStatistics.stddev

\* C11: once the statistics have been computed, a further
\* produce_final_report() without a reset() in between computes nothing
\* again: the eight statistics, the values and the count are what they were.
C11_repeated_report_recomputes_nothing ==
    [][ (derived_finalized_ /\ caller = "idle"
            /\ last_call'.op = "produce_final_report")
        => /\ statistics' = statistics
           /\ values_' = values_
           /\ poses_in_ensemble_' = poses_in_ensemble_ ]_vars

\* A second report that returned although values had arrived since the
\* first: the statistics are still those of the value 0 alone.
C11_witness ==
    /\ finalized_
    /\ last_call.op = "produce_final_report"
    /\ last_call.result = "ok"
    /\ values_ = << 0, 1 >>
    /\ poses_in_ensemble_ = 2
    /\ mean_ = R(0)

\* C12: the values change only while the metric is not finalized and are
\* emptied only by reset(): while finalized() is true no operation other than
\* reset(), recv_mpi_summary() included, alters values_ or the count.
C12_values_fixed_while_finalized ==
    [][ simple_metric_ # nullptr =>
          /\ (finalized_ /\ last_call'.op # "reset")
                => (values_' = values_ /\ poses_in_ensemble_' = poses_in_ensemble_)
          /\ (values_ # << >> /\ values_' = << >>) => last_call'.op = "reset" ]_vars

\* ------------------------------------------------- generation, claims C13-C15
\* The work vector was built without copies of the last mover.
NoLayering == ~(last_mover_ # nullptr /\ use_additional_output_from_last_mover_)

\* The same values, each as often (equality of multisets).
SameValues(a, b) ==
    \A v \in Values : Cardinality({ k \in DOMAIN a : a[k] = v })
                         = Cardinality({ k \in DOMAIN b : b[k] = v })

\* The values the entries of the work vector have added, in order of index.
RECURSIVE AddedUpTo(_)
AddedUpTo(n) == IF n = 0 THEN << >> ELSE AddedUpTo(n - 1) \o workvec[n].added
AddedValues == AddedUpTo(Len(workvec))

\* Every attempt of the work vector has succeeded and added its value.
AllAttemptsSucceeded ==
    /\ AllWorkItemsCompleted
    /\ \A j \in DOMAIN workvec : Len(workvec[j].added) = 1

\* The orders in which the values vals can be taken.
Orders(vals) ==
    { [ k \in DOMAIN vals |-> vals[p[k]] ] : p \in Permutations(DOMAIN vals) }

\* One caller counting and measuring vals one after the other, then reporting.
RECURSIVE Sequentially(_, _)
Sequentially(r, vals) ==
    IF vals = << >> THEN produce_final_report(r)
    ELSE Sequentially(add_pose_to_ensemble([ r EXCEPT !.m.poses = @ + 1 ], Head(vals)),
                      Tail(vals))

\* The metric as it was when the running apply() began, given that the work
\* vector has appended n values since.
MetricBefore(n) ==
    [ Metric EXCEPT !.poses = last_call.before,
                    !.values = SubSeq(values_, 1, Len(values_) - n) ]

Positions ==
    << "queued", "lock_pose", "copy_pose", "lock_protocol", "clone_protocol",
       "apply_protocol", "lock_metric", "load_count", "count_pose", "add_pose",
       "done" >>
Position(pc) == CHOOSE k \in DOMAIN Positions : Positions[k] = pc

\* C14: in generate-ensemble mode without additional output, on a metric that
\* has its simple metric, apply() makes
\* exactly R attempts, one for each index 1..R: an entry never goes back, so
\* it applies the protocol once and is not tried again; an attempt that
\* fails adds nothing; only a pose to which the protocol has been applied
\* with success is measured, never the pose given to apply(); and the count
\* rises by the number of attempts that succeeded, which is at most R.
C14_one_attempt_for_each_repeat ==
    [][ (NoLayering /\ simple_metric_ # nullptr) =>
          /\ (ApplyCalled /\ caller' = "in_apply") =>
                /\ DOMAIN workvec' = 1..ensemble_generating_protocol_repeats_
                /\ \A j \in DOMAIN workvec' :
                      workvec'[j].pc = "queued" /\ workvec'[j].added = << >>
                /\ values_' = values_
                /\ poses_in_ensemble_' = poses_in_ensemble_
          /\ (caller = "in_apply" /\ caller' = "in_apply") =>
                /\ DOMAIN workvec' = DOMAIN workvec
                /\ \A j \in DOMAIN workvec :
                      /\ Position(workvec'[j].pc) \in
                            { Position(workvec[j].pc), Position(workvec[j].pc) + 1 }
                            \cup { Position("done") }
                      /\ (workvec'[j].pc = "done" /\ workvec[j].pc # "done") =>
                            \/ /\ workvec[j].pc = "apply_protocol"
                               /\ workvec'[j].added = << >>
                               /\ values_' = values_
                               /\ poses_in_ensemble_' = poses_in_ensemble_
                            \/ /\ workvec[j].pc = "add_pose"
                               /\ workvec'[j].added = << workvec[j].my_pose >>
                               /\ values_' = Append(values_, workvec[j].my_pose)
                /\ values_' # values_ =>
                      \E j \in DOMAIN workvec :
                         workvec[j].pc = "add_pose" /\ workvec'[j].pc = "done"
          /\ GeneratingApplyEnds =>
                /\ AllWorkItemsCompleted
                /\ Len(AddedValues) <= ensemble_generating_protocol_repeats_
                /\ poses_in_ensemble_' = last_call.before + Len(AddedValues)
                /\ Len(values_') = Len(values_)
                /\ SameValues(SubSeq(values_', Len(values_) - Len(AddedValues) + 1,
                                     Len(values_)),
                              AddedValues) ]_vars

\* An apply() of two repeats to a pose that measures 0 has returned: one
\* attempt failed, the other one added the 1 it generated.
C14_witness ==
    /\ GenerateEnsembleMode
    /\ NoLayering
    /\ ensemble_generating_protocol_repeats_ = 2
    /\ caller = "idle"
    /\ last_call.op = "apply"
    /\ last_call.pose = 0
    /\ last_call.result = "ok"
    /\ last_call.before = 0
    /\ poses_in_ensemble_ = 1
    /\ values_ = << 1 >>

\* C15: failures of generation attempts never make apply() fail: whatever
\* subset of the attempts fails, all of them included, apply() returns
\* normally once every entry has run; when all have failed it leaves the
\* count as it was and the metric not finalized, and the empty ensemble shows
\* only when the caller finalizes afterwards.
C15_generation_failures_never_fail_apply ==
    [][ (GeneratingApplyEnds /\ NoLayering /\ simple_metric_ # nullptr
            /\ AllWorkItemsCompleted) =>
          /\ last_call'.result = "ok"
          /\ AddedValues = << >> =>
                /\ poses_in_ensemble_' = last_call.before
                /\ ~finalized_' ]_vars

\* -------------------------------------------- collection by MPI, claims C16-C20
\* The values received by the first k calls that returned, in their order.
RECURSIVE ReceivedUpTo(_)
ReceivedUpTo(k) ==
    IF k = 0 THEN << >>
    ELSE ReceivedUpTo(k - 1) \o peers[receiver.from[k]].values

\* The values of the processes 1..n, in the order of their ranks.
RECURSIVE ValuesUpTo(_)
ValuesUpTo(n) == IF n = 0 THEN << >> ELSE ValuesUpTo(n - 1) \o peers[n].values

\* This process has called recv_mpi_summary() once for each other process
\* and every call has returned.
AllReceived == caller = "idle" /\ Len(receiver.from) = NPeers

\* C16: once the receiving process has completed one recv_mpi_summary() for
\* each of the N other processes, each of which sends once, its count is its
\* own count before plus the counts of the others and its values are its own
\* followed by theirs (as a multiset: the union), in whatever order the
\* summaries arrived and also when some process had a count of 0.
C16_star_collects_every_summary ==
    AllReceived =>
       /\ \A p \in Peers : \E k \in DOMAIN receiver.from : receiver.from[k] = p
       /\ poses_in_ensemble_ = receiver.start.poses + Len(ValuesUpTo(NPeers))
       /\ values_ = receiver.start.values \o ReceivedUpTo(NPeers)
       /\ SameValues(values_, receiver.start.values \o ValuesUpTo(NPeers))

\* Process 2, with no values, was received before process 1, with the value
\* 1; this process had the value 0.
C16_witness ==
    /\ AllReceived
    /\ receiver.from = << 2, 1 >>
    /\ peers[1].values = << 1 >>
    /\ peers[2].values = << >>
    /\ receiver.start.values = << 0 >>
    /\ values_ = << 0, 1 >>
    /\ poses_in_ensemble_ = 2

\* C17: one recv_mpi_summary() reads a count from any process p, which is
\* the count of p; if it is 0 the call returns p and changes nothing; if it
\* is n > 0 the call then reads from p only, gets the n values of p, appends
\* exactly these after the values it had, raises the count by n and returns p.
C17_one_receive ==
    [][ /\ (caller = "in_recv" /\ receiver.pc = "count" /\ receiver' # receiver) =>
              \E p \in Peers :
                 /\ channel[p] # << >>
                 /\ channel' = [ channel EXCEPT ![p] = Tail(@) ]
                 /\ Head(channel[p]) = Message("MPI_INT", << peers[p].poses >>)
                 /\ poses_in_ensemble_' = poses_in_ensemble_
                 /\ IF peers[p].poses = 0
                    THEN /\ caller' = "idle"
                         /\ last_call'.result = "ok"
                         /\ receiver'.from = Append(receiver.from, p)
                         /\ accumulated' = accumulated
                    ELSE /\ caller' = "in_recv"
                         /\ receiver'.pc = "values"
                         /\ receiver'.originating_proc = p
                         /\ receiver'.n_additional_poses = peers[p].poses
                         /\ receiver'.oldsize = Len(values_)
                         /\ SubSeq(values_', 1, Len(values_)) = values_
        /\ (caller = "in_recv" /\ receiver.pc = "values") =>
              LET p == receiver.originating_proc
                  n == receiver.n_additional_poses
              IN  IF receiver' = receiver
                  THEN values_' = values_ /\ caller' = caller
                  ELSE /\ channel[p] # << >>
                       /\ channel' = [ channel EXCEPT ![p] = Tail(@) ]
                       /\ Head(channel[p]) = Message("MPI_DOUBLE", peers[p].values)
                       /\ Len(peers[p].values) = n
                       /\ values_' = SubSeq(values_, 1, receiver.oldsize)
                                        \o peers[p].values
                       /\ poses_in_ensemble_' = poses_in_ensemble_ + n
                       /\ caller' = "idle"
                       /\ last_call'.result = "ok"
                       /\ receiver'.from = Append(receiver.from, p) ]_vars

\* The first recv_mpi_summary() has returned process 1, whose one value 1 now
\* follows the value 0 that this process had.
C17_witness ==
    /\ caller = "idle"
    /\ last_call.op = "recv_mpi_summary"
    /\ last_call.result = "ok"
    /\ receiver.from = << 1 >>
    /\ receiver.start.values = << 0 >>
    /\ values_ = << 0, 1 >>
    /\ poses_in_ensemble_ = 2

\* C18: across the sends and receives of the processes the count of each is
\* the number of its values whenever it is between operations.
C18_count_is_length_across_mpi ==
    /\ caller = "idle" => poses_in_ensemble_ = Len(values_)
    /\ \A p \in DOMAIN peers : peers[p].poses = Len(peers[p].values)

\* Both other processes have sent and returned, and their two values have
\* been received.
C18_witness ==
    /\ AllReceived
    /\ \A p \in Peers : peers[p].pc = "done" /\ peers[p].poses = 1
    /\ poses_in_ensemble_ = 2
    /\ Len(values_) = 2

\* Every send_mpi_summary() and every recv_mpi_summary() of the star has
\* returned.
StarDone == AllReceived /\ \A p \in Peers : peers[p].pc = "done"

\* C19: in the star, with synchronous sends and messages of one sender
\* delivered in order, every send and every receive completes in the end:
\* there is no deadlock.
C19_star_completes == <>StarDone

\* The star has completed with a process that had values and one that had
\* none.
C19_witness ==
    /\ StarDone
    /\ peers[1].poses = 0
    /\ peers[2].poses = 2
    /\ values_ = peers[2].values

\* C20: a recv_mpi_summary() whose values come from another process than its
\* count does not return normally and merges nothing: after it none of these
\* values is in values_, and the count and the number of values are what
\* they were before the call.
C20_mismatched_payload_is_not_merged ==
    [][ (caller = "in_recv" /\ receiver.pc = "values"
            /\ \E q \in Peers \ { receiver.originating_proc } :
                   Len(channel'[q]) < Len(channel[q])) =>
          /\ last_call'.result # "ok"
          /\ receiver'.from = receiver.from
          /\ caller' = "idle" =>
                /\ values_' = SubSeq(values_, 1, receiver.oldsize)
                /\ poses_in_ensemble_' = poses_in_ensemble_
                /\ poses_in_ensemble_' = Len(values_') ]_vars

\* What a step has appended to the messages of process p.
Sent(p) ==
    IF Len(channel'[p]) > Len(channel[p])
    THEN SubSeq(channel'[p], Len(channel[p]) + 1, Len(channel'[p]))
    ELSE << >>

\* C21: send_mpi_summary( receiving_node_index ) sends one count, the
\* sender's, and then, only if that count is positive, one array holding the
\* sender's values in their order, both to receiving_node_index and nothing
\* to any other process; once it has returned it sends no more.  It leaves
\* the sender's values, count, finalized flag and computed statistics as
\* they were.
C21_send_transmits_count_then_values ==
    [][\A p \in Peers :
         LET from == peers[p].pc
             to   == peers'[p].pc
             me   == peers[p]
         IN  /\ [ peers'[p] EXCEPT !.pc = from ] = me
             /\ \A q \in Peers \ { p } :
                   to # from => channel'[q] = channel[q] /\ peers'[q] = peers[q]
             /\ IF to = from THEN Sent(p) = << >>
                ELSE IF from = "idle" /\ to = "send_count"
                THEN /\ me.poses = Len(me.values)
                     /\ Sent(p) = << MessageTo(receiving_node_index, "MPI_INT",
                                               << me.poses >>) >>
                ELSE IF from = "idle" /\ to = "failed"
                THEN me.poses # Len(me.values) /\ Sent(p) = << >>
                ELSE IF from = "send_count" /\ to = "send_values"
                THEN /\ me.poses > 0
                     /\ Sent(p) = << MessageTo(receiving_node_index, "MPI_DOUBLE",
                                               me.values) >>
                ELSE IF from = "send_count" /\ to = "done"
                THEN me.poses = 0 /\ Sent(p) = << >>
                ELSE from = "send_values" /\ to = "done" /\ Sent(p) = << >>
    ]_vars

\* A process that has reported on two values and one that has none have
\* both sent their summaries.
C21_witness ==
    \E p, q \in Peers :
        /\ peers[p].pc = "done" /\ peers[p].poses = 2 /\ peers[p].finalized
        /\ peers[q].pc = "done" /\ peers[q].poses = 0

\* What a tag gives to a newly constructed metric: no ensemble-generating
\* protocol and no use of the additional output of the last mover.
GivesNeither(tag) ==
    /\ ~hasOption(tag, "ensemble_generating_protocol")
    /\ tag.use_additional_output_from_last_mover \in { << >>, << FALSE >> }

\* The tag has an error of another kind: a repeat count of 0, a name that is
\* no output mode, or a file name for output to the tracer only.
OtherwiseWrong(tag) ==
    \/ /\ hasOption(tag, "ensemble_generating_protocol")
       /\ tag.ensemble_generating_protocol_repeats = << 0 >>
    \/ tag.output_mode = << "screen" >>
    \/ hasOption(tag, "output_filename") /\ ~hasOption(tag, "output_mode")

\* C22: for a class that does not support collection by MPI, in an MPI
\* build, parsing a tag that gives neither an ensemble-generating protocol
\* nor use_additional_output_from_last_mover fails, and that with nothing
\* measured and nothing sent or received; a tag that gives one of them (and
\* has no other error) is accepted.  However such a metric comes to be
\* configured with neither, apply() fails before it counts or measures
\* anything, and its send_mpi_summary() and recv_mpi_summary() always fail
\* and leave the metric as it was.
C22_unsupported_collection_rejected_when_configured ==
    [][~supports_mpi =>
         /\ last_call.op = "none" /\ last_call'.op = "parse_my_tag" =>
               /\ GivesNeither(last_call'.tag) => last_call'.result = "fail"
               /\ ~GivesNeither(last_call'.tag) /\ ~OtherwiseWrong(last_call'.tag)
                     => /\ last_call'.result = "ok"
                        /\ \/ ensemble_generating_protocol_' # nullptr
                           \/ use_additional_output_from_last_mover_'
               /\ UNCHANGED << accumulated, ensemble, mpi >>
         /\ ( /\ caller = "idle" /\ last_call'.op = "apply"
              /\ ensemble_generating_protocol_ = nullptr
              /\ ~use_additional_output_from_last_mover_ ) =>
               /\ last_call'.result = "fail"
               /\ UNCHANGED << accumulated, ensemble, workvec, mpi >>
         /\ last_call'.op \in { "send_mpi_summary", "recv_mpi_summary" } =>
               /\ last_call'.result = "fail"
               /\ UNCHANGED << accumulated, ensemble, mpi >>
    ]_vars

\* The tag of a metric of a class without support for MPI named only the
\* simple metric, and parsing it has failed.
C22_witness ==
    /\ ~supports_mpi
    /\ last_call.op = "parse_my_tag"
    /\ last_call.tag = [ NoTag EXCEPT !.real_valued_metric = << "metric" >> ]
    /\ last_call.result = "fail"
    /\ poses_in_ensemble_ = 0

\* The metric has reported on the values it holds.
Reported ==
    /\ last_call.op = "produce_final_report"
    /\ last_call.result = "ok"
    /\ finalized_
    /\ values_ # << >>

\* C23: the median is, of the ascending copy counted from 0, the element at
\* (n-1)/2 when n is odd and the average of those at n/2 - 1 and n/2 when n
\* is even; the positions read (counted from 1) lie in 1..n.
C23_median_is_middle_of_sorted ==
    Reported =>
        LET n == Len(values_)
            sorted0 == [ k \in 0..(n - 1) |-> Sort(values_)[k + 1] ]
        IN  /\ \A k \in DOMAIN MedianPositions(n) : MedianPositions(n)[k] \in 1..n
            /\ n % 2 = 1 => median_ = R(sorted0[(n - 1) \div 2])
            /\ n % 2 = 0 => median_ = RDiv(RAdd(R(sorted0[n \div 2 - 1]),
                                                R(sorted0[n \div 2])), R(2))

\* A report on two values whose median is neither of them.
C23_witness ==
    /\ Reported
    /\ values_ = << 2, -1 >>
    /\ median_ = << 1, 2 >>

\* The sum of a finite set of integers.
RECURSIVE SumOfSet(_)
SumOfSet(S) ==
    IF S = { } THEN 0
    ELSE LET x == CHOOSE y \in S : TRUE IN x + SumOfSet(S \ { x })

\* How often v occurs in values_, and the values that occur most often.
Occurrences(v) == Cardinality({ i \in DOMAIN values_ : values_[i] = v })
MostFrequent ==
    { v \in Samples : /\ Occurrences(v) > 0
                       /\ \A w \in Samples : Occurrences(w) <= Occurrences(v) }

RECURSIVE SumOfSquaredDeviations(_)
SumOfSquaredDeviations(k) ==
    IF k = 0 THEN R(0)
    ELSE LET d == RSub(R(values_[k]), mean_)
         IN  RAdd(SumOfSquaredDeviations(k - 1), RMul(d, d))

\* The sum of values_[1..k].
RECURSIVE SumOfValues(_)
SumOfValues(k) == IF k = 0 THEN 0 ELSE SumOfValues(k - 1) + values_[k]

\* C25: mean = sum / n; stddev is the population standard deviation
\* (stddev^2 * n is the sum of the squared deviations from the mean) and
\* stderr = stddev / sqrt(n) (stderr^2 * n = stddev^2).  The values
\* 1, 1, 2, 1, 0 give mean 1, median 1, mode 1, variance 2/5,
\* stderr^2 = 2/25, min 0, max 2 and range 2.
C25_mean_stddev_stderr ==
    Reported =>
        LET n == Len(values_)
        IN  /\ RMul(mean_, R(n)) = R(SumOfValues(n))
            /\ RMul(stddev_.sqrt_of, R(n)) = SumOfSquaredDeviations(n)
            /\ RMul(stderr_.sqrt_of, R(n)) = stddev_.sqrt_of
            /\ values_ = << 1, 1, 2, 1, 0 >> =>
                  /\ mean_ = R(1) /\ median_ = R(1) /\ mode_ = R(1)
                  /\ stddev_ = SqrtOf(<< 2, 5 >>)
                  /\ stderr_ = SqrtOf(<< 2, 25 >>)
                  /\ min_ = R(0) /\ max_ = R(2) /\ range_ = R(2)

\* The report on the values 1, 1, 2, 1, 0.
C25_witness ==
    /\ Reported
    /\ values_ = << 1, 1, 2, 1, 0 >>
    /\ stddev_.sqrt_of = << 2, 5 >>

\* v is one of values_ and none is less (LeastOf), none is greater
\* (GreatestOf).
LeastOf(v) ==
    /\ \E i \in DOMAIN values_ : values_[i] = v
    /\ \A i \in DOMAIN values_ : v <= values_[i]
GreatestOf(v) ==
    /\ \E i \in DOMAIN values_ : values_[i] = v
    /\ \A i \in DOMAIN values_ : values_[i] <= v

\* C26: min is the least of the values, max the greatest, range is exactly
\* max - min, and stddev is the square root of a number that is not
\* negative (so it is a number, and not negative itself).
C26_min_max_range_stddev ==
    Reported =>
        /\ \E v \in Samples : LeastOf(v) /\ min_ = R(v)
        /\ \E v \in Samples : GreatestOf(v) /\ max_ = R(v)
        /\ range_ = RSub(max_, min_)
        /\ range_[1] >= 0
        /\ stddev_.sqrt_of[1] >= 0 /\ stddev_.sqrt_of[2] > 0

\* A report on values that begin with the greatest and end with the least.
C26_witness ==
    /\ Reported
    /\ values_ = << 2, 0, -1 >>
    /\ min_ = R(-1) /\ max_ = R(2) /\ range_ = R(3)

\* vals with the elements at i and j exchanged.
Exchanged(vals, i, j) == [ vals EXCEPT ![i] = vals[j], ![j] = vals[i] ]

SetsRepeatsToZero ==
    /\ caller = "idle"
    /\ last_call'.tag.ensemble_generating_protocol_repeats = << 0 >>
    /\ \/ last_call'.op = "set_ensemble_generating_protocol_repeats"
       \/ /\ last_call'.op = "parse_my_tag"
          /\ hasOption(last_call'.tag, "ensemble_generating_protocol")

\* C28: setting the repeat count to 0 fails and leaves the repeat count as it
\* was; the repeat count, 1 after construction, is never less than 1; and
\* an apply() that generates an ensemble runs a work vector of as many work
\* items as the repeat count, so of one at least.
C28_repeat_count_is_positive ==
    [][/\ SetsRepeatsToZero =>
             /\ last_call'.result = "fail"
             /\ UNCHANGED ensemble_generating_protocol_repeats_
       /\ ensemble_generating_protocol_repeats_ >= 1
       /\ ensemble_generating_protocol_repeats_' >= 1
       /\ caller' = "in_apply" =>
             /\ Len(workvec') = ensemble_generating_protocol_repeats_'
             /\ Len(workvec') >= 1
    ]_vars

\* The repeat count has been set to 2, and setting it to 0 has then failed.
C28_witness ==
    /\ last_call.op = "set_ensemble_generating_protocol_repeats"
    /\ last_call.tag.ensemble_generating_protocol_repeats = << 0 >>
    /\ last_call.result = "fail"
    /\ ensemble_generating_protocol_repeats_ = 2
    /\ ensemble_generating_protocol_ # nullptr

\* A thread or a work item is between its increment of the count and the
\* end of its append.
ThreadAccumulates(t) ==
    At(t, "count_pose") \/ At(t, "read_size") \/ At(t, "push_back")
ItemAccumulates(i) ==
    i \in DOMAIN workvec /\ workvec[i].pc \in { "load_count", "count_pose", "add_pose" }

\* C29: every increment of the count with its append is made under the
\* accumulation lock, in apply() on a pose from outside as in a work item of
\* generation, so that k calls of apply() made at once by k threads end with
\* a count of k and k values.
C29_every_add_is_serialized ==
    /\ \A t \in DOMAIN threads : ThreadAccumulates(t) => ensemble_metric_mutex_ # 0
    /\ \A i \in DOMAIN workvec : ItemAccumulates(i) => ensemble_metric_mutex_ = i
    /\ (\A t \in DOMAIN threads : At(t, "done")) =>
          /\ poses_in_ensemble_ = Len(threads)
          /\ Len(values_) = Len(threads)

\* The work items that are copying a pose, and those cloning the protocol.
CopyingPose ==
    { i \in DOMAIN workvec : workvec[i].pc \in { "copy_pose", "copy_output" } }
CloningProtocol == { i \in DOMAIN workvec : workvec[i].pc = "clone_protocol" }
Accumulating == { i \in DOMAIN workvec : ItemAccumulates(i) }

\* The mutexes that work item i holds.
Held(i) ==
    { m \in { "pose_mutex_", "ensemble_generating_protocol_mutex_",
              "ensemble_metric_mutex_" } :
        \/ m = "pose_mutex_" /\ pose_mutex_ = i
        \/ m = "ensemble_generating_protocol_mutex_"
              /\ ensemble_generating_protocol_mutex_ = i
        \/ m = "ensemble_metric_mutex_" /\ ensemble_metric_mutex_ = i }

\* C30: while work items run, at most one is between the increment of the
\* count and the end of the append, at most one is copying a pose and at
\* most one is cloning the protocol; each of the three sections is entered
\* with its own mutex and no other, and the protocol is applied with none
\* of the three held.
C30_three_sections_three_mutexes ==
    /\ Cardinality(Accumulating) <= 1
    /\ Cardinality(CopyingPose) <= 1
    /\ Cardinality(CloningProtocol) <= 1
    /\ \A i \in DOMAIN workvec :
          /\ i \in Accumulating => Held(i) = { "ensemble_metric_mutex_" }
          /\ i \in CopyingPose => Held(i) = { "pose_mutex_" }
          /\ i \in CloningProtocol => Held(i) = { "ensemble_generating_protocol_mutex_" }
          /\ workvec[i].pc = "apply_protocol" => Held(i) = { }

\* One work item is about to store the count while the other clones the
\* protocol.
C30_witness ==
    /\ Len(workvec) = 2
    /\ workvec[1].pc = "count_pose"
    /\ workvec[2].pc = "clone_protocol"
    /\ ensemble_metric_mutex_ = 1
    /\ ensemble_generating_protocol_mutex_ = 2

\* ------------------------------------- the loop of a work item, claims C31-C32
\* Work item i takes the step that copies the next additional output when its
\* copy of the last mover has none left.
CopiesExhaustedOutput(i) ==
    /\ workvec[i].pc = "copy_output"
    /\ workvec[i].last_mover_copy.outs = << >>
    /\ \/ caller' # caller
       \/ i \in DOMAIN workvec' /\ workvec'[i] # workvec[i]

\* C31: a work item with a copy of the last mover ends: once the copy has no
\* further output the item leaves its loop and returns (and apply() goes on).
C31_exhausted_item_returns ==
    [][ \A i \in DOMAIN workvec :
          CopiesExhaustedOutput(i) =>
             /\ caller' = "in_apply"
             /\ i \in DOMAIN workvec'
             /\ workvec'[i].pc = "done" ]_vars

\* The application of the protocol in work item i ends without success.
FailedApplication(i) ==
    /\ workvec[i].pc = "apply_protocol"
    /\ i \in DOMAIN workvec'
    /\ workvec'[i].pc \notin { "apply_protocol", "lock_metric" }

ReportCalled == caller = "idle" /\ last_call'.op = "produce_final_report"

\* The reports that one produce_final_report() writes to the tracer and to
\* the file in the configured output mode.
SinksOfMode ==
    [ tracer |-> IF output_mode_ \in { "TRACER", "TRACER_AND_FILE" } THEN 1 ELSE 0,
      file   |-> IF output_mode_ \in { "FILE", "TRACER_AND_FILE" } THEN 1 ELSE 0 ]

\* C33: the finalized flag is set only by a step that has written the report
\* to every sink of the output mode, once each; a produce_final_report() that
\* returns normally leaves the flag set; one that fails leaves the flag, the
\* count and the values as they were, and with file output and an empty output
\* filename it does fail and the metric is not finalized.
C33_finalized_only_after_every_sink ==
    [][ /\ (~finalized_ /\ finalized_') =>
              /\ last_call'.result = "ok"
              /\ last_call'.reports = 1
              /\ last_call'.tracer = SinksOfMode.tracer
              /\ last_call'.file = SinksOfMode.file
        /\ ReportCalled =>
              /\ last_call'.result = "ok" => finalized_'
              /\ last_call'.result # "ok" =>
                    /\ finalized_' = finalized_
                    /\ values_' = values_
                    /\ poses_in_ensemble_' = poses_in_ensemble_
                    /\ last_call'.file = 0
              /\ (SinksOfMode.file = 1 /\ output_filename_ = "") =>
                    /\ last_call'.result = "fail"
                    /\ ~finalized_' ]_vars

\* A produce_final_report() in tracer-and-file mode without an output
\* filename has written to the tracer and failed on the file; the metric
\* holds a value and is not finalized.
C33_witness ==
    /\ caller = "idle"
    /\ last_call.op = "produce_final_report"
    /\ last_call.result = "fail"
    /\ last_call.tracer = 1
    /\ output_mode_ = "TRACER_AND_FILE"
    /\ output_filename_ = ""
    /\ values_ # << >>
    /\ ~finalized_

\* C34: reports_at_end() tells whether apply() defers the report: after an
\* apply() that has returned normally the metric is finalized, with one report
\* produced by that call, exactly when reports_at_end() is false.
C34_reports_at_end_tells_whether_apply_reports ==
    (caller = "idle" /\ last_call.op = "apply" /\ last_call.result = "ok") =>
       /\ reports_at_end => (~finalized_ /\ last_call.reports = 0)
       /\ ~reports_at_end => (finalized_ /\ last_call.reports = 1)

\* ------------------------------ the filter and destruction, claims C35-C36
\* The step is a call of one of the filter's entry points.
FilterCalled ==
    /\ caller = "idle"
    /\ last_call'.op \in FilterEntries
    /\ last_call' # last_call
    /\ ensemble_filter' = ensemble_filter

\* The filter has its metric and the name of one of the metric's values.
FilterValid ==
    /\ ensemble_filter.ensemble_metric_ # nullptr
    /\ ensemble_filter.named_value_ \in metric_names_for_class

\* C35 as stated: a call of the filter leaves the finalized flag, the count,
\* the values and the memoized statistics of its metric as they were.
C35_filter_only_reads ==
    [][ FilterCalled => UNCHANGED accumulated ]_vars

\* C35, amended: a call of the filter never changes the count or the values;
\* on a finalized metric, or when the filter lacks its metric or a name the
\* metric has, it changes nothing of the metric and produces no report; on a
\* metric that is not finalized it has the effect of produce_final_report()
\* on the metric, so that a metric with samples (and a report that can be
\* written) is finalized by it with one report produced; the filter returns
\* a value only from a finalized metric, and apply() on a finalized metric
\* fails and changes nothing.
C35_filter_reports_before_it_reads ==
    [][ /\ FilterCalled =>
              /\ values_' = values_
              /\ poses_in_ensemble_' = poses_in_ensemble_
              /\ (finalized_ \/ ~FilterValid) =>
                    /\ UNCHANGED accumulated
                    /\ last_call'.reports = 0
                    /\ last_call'.result = "ok" <=> FilterValid
              /\ (FilterValid /\ ~finalized_) =>
                    /\ \E r \in produce_final_report(Running(Metric)) :
                          /\ Metric' = r.m
                          /\ last_call'.result = r.result
                          /\ last_call'.reports = r.reports
                    /\ ( /\ poses_in_ensemble_ > 0
                         /\ poses_in_ensemble_ = Len(values_)
                         /\ simple_metric_ # nullptr
                         /\ ReportCanBeWritten ) =>
                          /\ finalized_'
                          /\ last_call'.result = "ok"
                          /\ last_call'.reports = 1
              /\ last_call'.result = "ok" => finalized_'
        /\ ( /\ caller = "idle"
             /\ last_call'.op = "apply"
             /\ last_call' # last_call
             /\ finalized_ ) =>
              /\ last_call'.result = "fail"
              /\ UNCHANGED accumulated ]_vars

\* A call of the filter on a metric that held values and was not finalized
\* has produced the report and left the metric finalized.
C35_witness ==
    /\ caller = "idle"
    /\ last_call.op = "EnsembleFilter::apply"
    /\ last_call.result = "ok"
    /\ last_call.reports = 1
    /\ FilterValid
    /\ finalized_
    /\ values_ # << >>

\* C36: destroying a metric that is not finalized and holds at least one
\* value (as many as it has counted) produces its final report exactly once;
\* destroying one that is finalized or holds none produces no report and
\* raises no error.
C36_destruction_reports_what_is_open ==
    [][ ( /\ caller = "idle"
          /\ last_call'.op = "destructor"
          /\ poses_in_ensemble_ = Len(values_) ) =>
          /\ (~finalized_ /\ values_ # << >>) =>
                /\ last_call'.result = "ok"
                /\ last_call'.reports = 1
          /\ (finalized_ \/ values_ = << >>) =>
                /\ last_call'.result = "ok"
                /\ last_call'.reports = 0 ]_vars

\* ------------------------------------------- the two flags, claims C37-C38
\* C37: whenever the metric is finalized (here: with its simple metric and as
\* many values as it has counted, at least one), the eight memoized
\* statistics are those of the values it holds.
C37_memoized_statistics_are_those_of_the_values ==
    ( /\ finalized_
      /\ simple_metric_ # nullptr
      /\ values_ # << >>
      /\ poses_in_ensemble_ = Len(values_) ) =>
       Metric.stats = ComputeStatistics(values_, poses_in_ensemble_)

\* C38: between operations derived_finalized_ is true only if finalized_ is.
C38_computed_only_if_finalized ==
    caller = "idle" => (derived_finalized_ => finalized_)

\* ------------------------------------------------ the three locks, claim C39
\* The work items that wait for a mutex.
Waiting ==
    { i \in DOMAIN workvec :
        workvec[i].pc \in { "lock_pose", "lock_protocol", "lock_metric", "lock_output" } }

\* No work item holds two of the three mutexes, and none holds one while it
\* waits for another.
OneLockAtATime ==
    \A i \in DOMAIN workvec :
       /\ Cardinality(Held(i)) <= 1
       /\ i \in Waiting => Held(i) = { }

\* The count has reached the bound of the model, where a work item that
\* would count a further pose is followed no further.
CountAtBound == poses_in_ensemble_ = MaxPoses

\* C39: no work item ever holds two of the three mutexes or waits for one
\* while it holds another, and every apply() that has handed out its work
\* vector sees all its work items complete (as far as the count is followed).
C39_one_lock_at_a_time_and_all_items_complete ==
    /\ []OneLockAtATime
    /\ (caller = "in_apply") ~>
          ((caller = "in_apply" /\ work_vector_done) \/ CountAtBound)

\* ------------------------------------------ summaries in flight, claim C40
\* The oldest message of process p that no receive has matched is a count.
OldestIsCount(p) ==
    channel[p] # << >> =>
       /\ Head(channel[p]).type = "MPI_INT"
       /\ Len(Head(channel[p]).data) = 1
       /\ Head(channel[p]).data[1] >= 0

\* C40: whenever recv_mpi_summary() is not between its two receives (before
\* a call, while it waits in the receive from any source, after it has
\* returned) the oldest unmatched message of every process is a count, so
\* that the receive from any source never takes an array of values; between
\* the two receives this is so of every process but originating_proc, whose
\* oldest message, if there is one, is the array of the announced length;
\* and no receive fails or stops the process.
C40_any_source_receive_takes_a_count ==
    /\ caller \in { "idle", "in_recv" }
    /\ last_call.result \in { "ok", "running" }
    /\ receiver.pc # "values" => \A p \in Peers : OldestIsCount(p)
    /\ receiver.pc = "values" =>
          \A p \in Peers :
             IF p # receiver.originating_proc THEN OldestIsCount(p)
             ELSE channel[p] # << >> =>
                     /\ Head(channel[p]).type = "MPI_DOUBLE"
                     /\ Len(Head(channel[p]).data) = receiver.n_additional_poses

\* A receive waits for a count from any source while one process has two
\* summaries in flight (count, values, count, values) and the other has one.
C40_witness ==
    /\ caller = "in_recv"
    /\ receiver.pc = "count"
    /\ \E p, q \in Peers :
          /\ p # q
          /\ Len(channel[p]) = 4
          /\ channel[p][2].type = "MPI_DOUBLE"
          /\ channel[p][3].type = "MPI_INT"
          /\ Len(channel[q]) >= 2

=============================================================================
